---- MODULE Spec2Model ----
(***************************************************************************)
(* html_cleaner: processors/html_processor.py, process_html_file.           *)
(*                                                                         *)
(* The document is the BeautifulSoup tree built at line 28: node 0 is the  *)
(* soup object, the other nodes are Tags, NavigableStrings and Comments,   *)
(* numbered in the order the parser created them (document order).  Each   *)
(* loop iteration of process_html_file is one action; find_all() returns a *)
(* list computed before the loop body runs, kept in todo.                  *)
(***************************************************************************)
EXTENDS Integers, Sequences, FiniteSets, TLC

\* ---------------------------------------------------------------- bounds
MaxNodes == 3
MaxTags == 2
MaxExceptions == 1

\* ------------------------------------------------------------- constants
Root == 0
Ids == 1..MaxNodes
Nodes == {Root} \cup Ids

ElemNames == {"a", "b"}
TextLabel == "#text"
CommentLabel == "#comment"
Labels == ElemNames \cup {TextLabel, CommentLabel}
RuleNames == ElemNames \cup {"comment", ""}
Modes == {"all", "selected", "all_except"}

None == <<>>
Some(x) == <<x>>

NoAttrs == <<>>
\* the attributes of element n as written in the file: two of them, so that a
\* partial strip would show, and the first differs from element to element
AttrsOf(n) == << <<"id", n>>, <<"class", "y">> >>

\* --------------------------------------------------------------- helpers
RECURSIVE SortedSeq(_)
SortedSeq(S) ==
  IF S = {} THEN <<>>
  ELSE LET m == CHOOSE x \in S : \A y \in S : x <= y
       IN <<m>> \o SortedSeq(S \ {m})

SeqsUpTo(S, n) == UNION {[1..k -> S] : k \in 0..n}

Range(s) == {s[i] : i \in DOMAIN s}

IndexOf(s, x) == CHOOSE i \in DOMAIN s : s[i] = x

RemoveAt(s, i) == SubSeq(s, 1, i - 1) \o SubSeq(s, i + 1, Len(s))

\* ------------------------------------------------------------ the parser
\* pv[i] is the parent of node i.  Nodes are numbered in document order, so
\* the parent of i is i-1 or one of the ancestors of i-1.
RECURSIVE OnPath(_, _, _)
OnPath(pv, a, n) == a = n \/ (n /= Root /\ OnPath(pv, a, pv[n]))

ParentVectors ==
  {pv \in [Ids -> Nodes] :
     \A i \in Ids : pv[i] < i /\ (i > 1 => OnPath(pv, pv[i], i - 1))}

\* a label that is a tag name: html.parser makes a Tag of any name, 'comment'
\* included
IsElemLabel(l) == l \notin {TextLabel, CommentLabel}

\* only a Tag has children.  Renaming a to b and b to a throughout the file
\* and the rule lists maps runs to runs, so of each such pair of inputs only
\* the one whose first element is an "a" is kept.
Labelings(pv) ==
  {l \in [Ids -> Labels] :
     /\ \A i \in Ids : pv[i] /= Root => IsElemLabel(l[pv[i]])
     /\ \A i \in Ids : (IsElemLabel(l[i]) /\ \A j \in 1..(i - 1) : ~IsElemLabel(l[j]))
                        => l[i] = "a"}

\* the elements of a labeling, and the last of them in document order
ElemIds(l) == {i \in Ids : IsElemLabel(l[i])}
LastElem(l) == CHOOSE i \in ElemIds(l) : \A j \in ElemIds(l) : j <= i

\* every element is written with attributes, except that the last element of
\* the file may be written bare
AttrMaps(l) ==
  {am \in [Ids -> {NoAttrs} \cup {AttrsOf(i) : i \in Ids}] :
     \A i \in Ids :
       \/ am[i] = NoAttrs /\ (IsElemLabel(l[i]) => i = LastElem(l))
       \/ am[i] = AttrsOf(i) /\ IsElemLabel(l[i])}

Parse(pv, am) ==
  [contents |-> [n \in Nodes |-> SortedSeq({i \in Ids : pv[i] = n})],
   parent   |-> [n \in Nodes |-> IF n = Root THEN None ELSE Some(pv[n])],
   attrs    |-> [n \in Nodes |-> IF n = Root THEN NoAttrs ELSE am[n]],
   raised   |-> FALSE]

\* the tree BeautifulSoup(content, 'html.parser') builds for the file content c
ParseContent(c) == Parse(c.pv, c.am)

\* the soup variable before line 28 has run
NoSoup ==
  [contents |-> [n \in Nodes |-> <<>>],
   parent   |-> [n \in Nodes |-> None],
   attrs    |-> [n \in Nodes |-> NoAttrs],
   raised   |-> FALSE]

\* ------------------------------------------------------- tree navigation
IsElement(l, n) == n /= Root /\ IsElemLabel(l[n])
IsText(l, n) == n /= Root /\ l[n] = TextLabel
IsComment(l, n) == n /= Root /\ l[n] = CommentLabel

\* document-order list of the nodes below the nodes of list s (Tag.descendants)
RECURSIVE DescOfList(_, _)
DescOfList(cont, s) ==
  IF s = <<>> THEN <<>>
  ELSE <<Head(s)>> \o DescOfList(cont, cont[Head(s)]) \o DescOfList(cont, Tail(s))

Descendants(t, n) == DescOfList(t.contents, t.contents[n])

\* main_window.py line 250: the tag names the window offers as check boxes
common_tags == {"script", "style", "iframe", "comment", "header", "footer", "nav", "aside"}

\* mutant of FindAll: only the names of the catalog are looked for
FindAll_CatalogOnly(t, l, tag) ==
  IF tag \in common_tags
  THEN SelectSeq(Descendants(t, Root), LAMBDA n : IsElement(l, n) /\ l[n] = tag)
  ELSE <<>>

\* soup.find_all(tag): every Tag below the soup named tag, in document order
FindAll(t, l, tag) ==
  SelectSeq(Descendants(t, Root), LAMBDA n : IsElement(l, n) /\ l[n] = tag)

\* soup.find_all(True): every Tag below the soup
FindAllTags(t, l) == SelectSeq(Descendants(t, Root), LAMBDA n : IsElement(l, n))

\* mutant of FindAllComments: only the comments at the top of the document
FindAllComments_TopLevel(t, l) ==
  SelectSeq(t.contents[Root], LAMBDA n : IsComment(l, n))

\* soup.find_all(text=lambda text: isinstance(text, Comment))
FindAllComments(t, l) == SelectSeq(Descendants(t, Root), LAMBDA n : IsComment(l, n))

\* ------------------------------------------------------- tree operations
\* PageElement.extract(): take n out of its parent's contents; nothing to do
\* when n has no parent
Extract(t, n) ==
  IF t.parent[n] = None THEN t
  ELSE LET p == t.parent[n][1]
           i == IndexOf(t.contents[p], n)
       IN [t EXCEPT !.contents[p] = RemoveAt(@, i), !.parent[n] = None]

\* mutant of Unwrap: the children are inserted in the order they are taken,
\* each at the same index, so they end up reversed
RECURSIVE Reversed(_)
Reversed(s) == IF s = <<>> THEN <<>> ELSE Reversed(Tail(s)) \o <<Head(s)>>

Unwrap_Reversed(t, n) ==
  IF t.parent[n] = None THEN [t EXCEPT !.raised = TRUE]
  ELSE LET p == t.parent[n][1]
           i == IndexOf(t.contents[p], n)
           kids == t.contents[n]
           sibs == t.contents[p]
       IN [t EXCEPT
             !.contents = [m \in Nodes |->
                 IF m = p THEN SubSeq(sibs, 1, i - 1) \o Reversed(kids)
                               \o SubSeq(sibs, i + 1, Len(sibs))
                 ELSE IF m = n THEN <<>>
                 ELSE t.contents[m]],
             !.parent = [m \in Nodes |->
                 IF m = n THEN None
                 ELSE IF m \in Range(kids) THEN Some(p)
                 ELSE t.parent[m]]]

\* Tag.unwrap(): replace n by its children in its parent's contents; raises
\* when n is not part of a tree
Unwrap(t, n) ==
  IF t.parent[n] = None THEN [t EXCEPT !.raised = TRUE]
  ELSE LET p == t.parent[n][1]
           i == IndexOf(t.contents[p], n)
           kids == t.contents[n]
           sibs == t.contents[p]
       IN [t EXCEPT
             !.contents = [m \in Nodes |->
                 IF m = p THEN SubSeq(sibs, 1, i - 1) \o kids \o SubSeq(sibs, i + 1, Len(sibs))
                 ELSE IF m = n THEN <<>>
                 ELSE t.contents[m]],
             !.parent = [m \in Nodes |->
                 IF m = n THEN None
                 ELSE IF m \in Range(kids) THEN Some(p)
                 ELSE t.parent[m]]]

\* mutant of Decompose: Tag.clear() is called instead, which empties the
\* element and leaves it where it is
Decompose_Clear(t, n) ==
  LET sub == Range(Descendants(t, n))
  IN [t EXCEPT
        !.contents = [m \in Nodes |-> IF m \in sub \cup {n} THEN <<>> ELSE t.contents[m]],
        !.parent = [m \in Nodes |-> IF m \in sub THEN None ELSE t.parent[m]],
        !.attrs = [m \in Nodes |-> IF m \in sub THEN NoAttrs ELSE t.attrs[m]]]

\* mutant of Decompose: an element that is no longer part of a tree makes
\* decompose() raise
Decompose_Strict(t, n) ==
  IF t.parent[n] = None THEN [t EXCEPT !.raised = TRUE]
  ELSE LET e == Extract(t, n)
           sub == {n} \cup Range(Descendants(e, n))
       IN [e EXCEPT
             !.contents = [m \in Nodes |-> IF m \in sub THEN <<>> ELSE e.contents[m]],
             !.parent = [m \in Nodes |-> IF m \in sub THEN None ELSE e.parent[m]],
             !.attrs = [m \in Nodes |-> IF m \in sub THEN NoAttrs ELSE e.attrs[m]]]

\* Tag.decompose(): extract n, then clear n and everything below it
Decompose(t, n) ==
  LET e == Extract(t, n)
      sub == {n} \cup Range(Descendants(e, n))
  IN [e EXCEPT
        !.contents = [m \in Nodes |-> IF m \in sub THEN <<>> ELSE e.contents[m]],
        !.parent = [m \in Nodes |-> IF m \in sub THEN None ELSE e.parent[m]],
        !.attrs = [m \in Nodes |-> IF m \in sub THEN NoAttrs ELSE e.attrs[m]]]

\* mutant of ClearAttrs: only the first attribute is dropped
ClearAttrs_First(t, n) ==
  [t EXCEPT !.attrs[n] = IF @ = NoAttrs THEN NoAttrs ELSE Tail(@)]

\* element.attrs = {}
ClearAttrs(t, n) == [t EXCEPT !.attrs[n] = NoAttrs]

\* `attrs_exceptions or []`: None and the empty list are the same value here
OrEmpty(x) == IF x = None THEN <<>> ELSE x

\* mutant of IsTagName: only the empty name is skipped
IsTagName_NotEmpty(tag) == tag /= ""

\* the test of lines 37 and 44
IsTagName(tag) == tag /= "" /\ tag /= "comment"

\* the test of line 31
WantsComments(rem, del) == "comment" \in Range(rem) \/ "comment" \in Range(del)

\* mutant of Cleans: the test of line 67 written with `in`
Cleans_Inverted(l, mode, exc, n) ==
  IF mode = "all_except" THEN l[n] \in Range(OrEmpty(exc)) ELSE TRUE

\* mutant of Cleans: the test of line 67 applied in every mode
Cleans_ExceptAlways(l, mode, exc, n) == l[n] \notin Range(OrEmpty(exc))

\* the test of line 67, and the unconditional bodies of lines 54 and 62
Cleans(l, mode, exc, n) ==
  IF mode = "all_except" THEN l[n] \notin Range(OrEmpty(exc)) ELSE TRUE

\* str(soup): the markup written at line 73, as a list of tokens
RECURSIVE SerializeList(_, _, _)
SerializeList(t, l, s) ==
  IF s = <<>> THEN <<>>
  ELSE LET n == Head(s)
           one == IF IsElement(l, n)
                  THEN << <<"open", l[n], t.attrs[n]>> >>
                       \o SerializeList(t, l, t.contents[n])
                       \o << <<"close", l[n]>> >>
                  ELSE << <<l[n], n>> >>
       IN one \o SerializeList(t, l, Tail(s))

Serialize(t, l) == SerializeList(t, l, t.contents[Root])

\* ----------------------------------------------------------------- state
VARIABLES
  content,                      \* the input file: what the parser will build
  tags_to_remove,               \* parameters of process_html_file
  tags_to_remove_with_content,
  clean_attrs_mode,
  attrs_exceptions,
  soup,                         \* the tree being edited in place
  pc,                           \* the pass process_html_file is in
  ti,                           \* position of the running `for tag in ...` loop
  todo,                         \* what is left of the list find_all returned
  result,                       \* the value returned: "none" until it returns
  output,                       \* the output file: None when absent
  snap,                         \* history: the tree as each pass found it
  window,                       \* the widgets start_processing reads
  blocked,                      \* directories of the disk that cannot be made
  fs,                           \* the output files: None when absent
  bpc,                          \* where start_processing is
  files,                        \* start_processing's locals
  output_dir,
  processed,
  errors,
  progress_bar,                 \* [maximum, value]
  status_label,
  shown,                        \* the message boxes shown so far
  calls,                        \* history: the calls of process_html_file
  results,                      \* history: what each call returned
  rules,                        \* start_processing's locals: the rule lists
  stack,                        \* the calls of start_processing that wait in
                                \* processEvents for a call made from it
  clicks                        \* the clicks on Start that processEvents handled

params == <<content, tags_to_remove, tags_to_remove_with_content,
            clean_attrs_mode, attrs_exceptions>>
\* start_processing's locals and what it shows and writes
batch == <<blocked, fs, bpc, files, output_dir, processed, errors,
           progress_bar, status_label, shown, calls, results, rules, stack, clicks>>
gui == <<window, batch>>
vars == <<content, tags_to_remove, tags_to_remove_with_content, clean_attrs_mode,
          attrs_exceptions, soup, pc, ti, todo, result, output, snap, gui>>

\* the rule lists before lines 561-594 have run
NoRules ==
  [tags_to_remove |-> <<>>, tags_to_remove_with_content |-> <<>>,
   attr_clean_mode |-> "all", attr_exceptions |-> <<>>]

\* process_html_file called on its own: no window, no batch
NoBatch ==
  /\ window = <<>>
  /\ blocked = {}
  /\ fs = <<>>
  /\ bpc = "none"
  /\ files = <<>>
  /\ output_dir = <<>>
  /\ processed = 0
  /\ errors = 0
  /\ progress_bar = [maximum |-> 0, value |-> 0]
  /\ status_label = ""
  /\ shown = <<>>
  /\ calls = <<>>
  /\ results = <<>>
  /\ rules = NoRules
  /\ stack = <<>>
  /\ clicks = 0

lb == content.lb

Contents ==
  UNION {UNION {{[pv |-> pv, lb |-> l, am |-> am] : am \in AttrMaps(l)} :
                  l \in Labelings(pv)} : pv \in ParentVectors}

Init ==
  /\ content \in Contents
  /\ tags_to_remove \in SeqsUpTo(RuleNames, MaxTags)
  /\ tags_to_remove_with_content \in SeqsUpTo(RuleNames, MaxTags)
  /\ Len(tags_to_remove) + Len(tags_to_remove_with_content) <= MaxTags
  /\ clean_attrs_mode \in Modes
  /\ attrs_exceptions \in SeqsUpTo(ElemNames \cup {""}, MaxExceptions)
  /\ soup = NoSoup
  /\ pc = "start"
  /\ ti = 1
  /\ todo = <<>>
  /\ result = "none"
  /\ output = None
  /\ snap = [unwrap |-> NoSoup, delete |-> NoSoup, attrs |-> NoSoup]
  /\ NoBatch

\* main_window.py line 644, `result is not True`: what the caller takes for
\* an error
IsError(r) == r /= "True"

\* lines 22-28: the directory is made, the file is read and parsed
ReadAndParse ==
  /\ pc = "start"
  /\ soup' = ParseContent(content)
  /\ pc' = "comments"
  /\ UNCHANGED <<gui, params, ti, todo, result, output, snap>>

\* mutant of ReadFails: the output file is opened for writing before the read
ReadFails_Truncates ==
  /\ pc = "start"
  /\ pc' = "done"
  /\ result' = "error"
  /\ output' = Some(<<>>)
  /\ UNCHANGED <<gui, params, soup, ti, todo, snap>>

\* lines 22-25 raise (makedirs, open, decoding): line 77 returns the message
ReadFails ==
  /\ pc = "start"
  /\ pc' = "done"
  /\ result' = "error"
  /\ UNCHANGED <<gui, params, soup, ti, todo, output, snap>>

\* where the comment pass goes when its list is used up
EndComments(t) ==
  /\ pc' = "unwrap"
  /\ ti' = 1
  /\ snap' = [snap EXCEPT !.unwrap = t]

\* lines 31-32: the test, and the find_all that lists the comments
CommentFind ==
  /\ pc = "comments"
  /\ LET found == IF WantsComments(tags_to_remove, tags_to_remove_with_content)
                  THEN FindAllComments(soup, lb) ELSE <<>>
     IN /\ todo' = found
        /\ IF found = <<>> THEN EndComments(soup)
           ELSE pc' = "comment_loop" /\ UNCHANGED <<ti, snap>>
  /\ UNCHANGED <<gui, params, soup, result, output>>

\* line 33: comment.extract() for the next comment of the list
CommentStep ==
  /\ pc = "comment_loop"
  /\ soup' = Extract(soup, Head(todo))
  /\ todo' = Tail(todo)
  /\ IF Tail(todo) = <<>> THEN EndComments(soup')
     ELSE UNCHANGED <<pc, ti, snap>>
  /\ UNCHANGED <<gui, params, result, output>>

\* mutant of UnwrapNextTag: the loop is left after its first tag
UnwrapNextTag_FirstOnly ==
  /\ pc = "unwrap"
  /\ todo = <<>>
  /\ IF ti <= Len(tags_to_remove) /\ ti = 1
     THEN /\ todo' = IF IsTagName(tags_to_remove[ti])
                     THEN FindAll(soup, lb, tags_to_remove[ti]) ELSE <<>>
          /\ ti' = ti + 1
          /\ UNCHANGED <<pc, snap>>
     ELSE /\ pc' = "delete"
          /\ ti' = 1
          /\ snap' = [snap EXCEPT !.delete = soup]
          /\ UNCHANGED todo
  /\ UNCHANGED <<gui, params, soup, result, output>>

\* mutant of UnwrapNextTag: an empty tag name ends the loop (break for skip)
UnwrapNextTag_EmptyStops ==
  /\ pc = "unwrap"
  /\ todo = <<>>
  /\ IF ti <= Len(tags_to_remove) /\ tags_to_remove[ti] /= ""
     THEN /\ todo' = IF IsTagName(tags_to_remove[ti])
                     THEN FindAll(soup, lb, tags_to_remove[ti]) ELSE <<>>
          /\ ti' = ti + 1
          /\ UNCHANGED <<pc, snap>>
     ELSE /\ pc' = "delete"
          /\ ti' = 1
          /\ snap' = [snap EXCEPT !.delete = soup]
          /\ UNCHANGED todo
  /\ UNCHANGED <<gui, params, soup, result, output>>

\* mutant of UnwrapNextTag: a tag that is also listed for deletion is left
\* to the delete pass
UnwrapNextTag_SkipsDeleted ==
  /\ pc = "unwrap"
  /\ todo = <<>>
  /\ IF ti <= Len(tags_to_remove)
     THEN /\ todo' = IF /\ IsTagName(tags_to_remove[ti])
                        /\ tags_to_remove[ti] \notin Range(tags_to_remove_with_content)
                     THEN FindAll(soup, lb, tags_to_remove[ti]) ELSE <<>>
          /\ ti' = ti + 1
          /\ UNCHANGED <<pc, snap>>
     ELSE /\ pc' = "delete"
          /\ ti' = 1
          /\ snap' = [snap EXCEPT !.delete = soup]
          /\ UNCHANGED todo
  /\ UNCHANGED <<gui, params, soup, result, output>>

\* lines 36-38: the next tag of tags_to_remove, its test and its find_all
UnwrapNextTag ==
  /\ pc = "unwrap"
  /\ todo = <<>>
  /\ IF ti <= Len(tags_to_remove)
     THEN /\ todo' = IF IsTagName(tags_to_remove[ti])
                     THEN FindAll(soup, lb, tags_to_remove[ti]) ELSE <<>>
          /\ ti' = ti + 1
          /\ UNCHANGED <<pc, snap>>
     ELSE /\ pc' = "delete"
          /\ ti' = 1
          /\ snap' = [snap EXCEPT !.delete = soup]
          /\ UNCHANGED todo
  /\ UNCHANGED <<gui, params, soup, result, output>>

\* mutant of UnwrapStep: an element whose name is also listed for deletion is
\* decomposed
UnwrapStep_DeletesListed ==
  /\ pc = "unwrap"
  /\ todo /= <<>>
  /\ LET t == IF lb[Head(todo)] \in Range(tags_to_remove_with_content)
              THEN Decompose(soup, Head(todo)) ELSE Unwrap(soup, Head(todo))
     IN IF t.raised
        THEN /\ pc' = "done"
             /\ result' = "error"
             /\ UNCHANGED <<soup, todo>>
        ELSE /\ soup' = t
             /\ todo' = Tail(todo)
             /\ UNCHANGED <<pc, result>>
  /\ UNCHANGED <<gui, params, ti, output, snap>>

\* line 40: element.unwrap() for the next element of the list
UnwrapStep ==
  /\ pc = "unwrap"
  /\ todo /= <<>>
  /\ LET t == Unwrap(soup, Head(todo))
     IN IF t.raised
        THEN /\ pc' = "done"
             /\ result' = "error"
             /\ UNCHANGED <<soup, todo>>
        ELSE /\ soup' = t
             /\ todo' = Tail(todo)
             /\ UNCHANGED <<pc, result>>
  /\ UNCHANGED <<gui, params, ti, output, snap>>

\* mutant of DeleteNextTag: the loop is left after its first tag
DeleteNextTag_StopsEarly ==
  /\ pc = "delete"
  /\ todo = <<>>
  /\ IF ti <= Len(tags_to_remove_with_content) /\ ti = 1
     THEN /\ todo' = IF IsTagName(tags_to_remove_with_content[ti])
                     THEN FindAll(soup, lb, tags_to_remove_with_content[ti]) ELSE <<>>
          /\ ti' = ti + 1
          /\ UNCHANGED <<pc, snap>>
     ELSE /\ pc' = "attrs"
          /\ ti' = 1
          /\ snap' = [snap EXCEPT !.attrs = soup]
          /\ UNCHANGED todo
  /\ UNCHANGED <<gui, params, soup, result, output>>

\* lines 43-45: the next tag of tags_to_remove_with_content
DeleteNextTag ==
  /\ pc = "delete"
  /\ todo = <<>>
  /\ IF ti <= Len(tags_to_remove_with_content)
     THEN /\ todo' = IF IsTagName(tags_to_remove_with_content[ti])
                     THEN FindAll(soup, lb, tags_to_remove_with_content[ti]) ELSE <<>>
          /\ ti' = ti + 1
          /\ UNCHANGED <<pc, snap>>
     ELSE /\ pc' = "attrs"
          /\ ti' = 1
          /\ snap' = [snap EXCEPT !.attrs = soup]
          /\ UNCHANGED todo
  /\ UNCHANGED <<gui, params, soup, result, output>>

\* line 47: element.decompose() for the next element of the list
DeleteStep ==
  /\ pc = "delete"
  /\ todo /= <<>>
  /\ soup' = Decompose(soup, Head(todo))
  /\ todo' = Tail(todo)
  /\ UNCHANGED <<gui, params, pc, ti, result, output, snap>>

\* mutant of AttrList: 'selected' walks every element, as 'all' does
AttrList_SelectedAll(t, l, mode, exc, i) == FindAllTags(t, l)

\* the list the attribute pass walks next: lines 52 and 66 call find_all(True)
\* once, lines 58-60 call find_all(tag) for each non-empty tag of the list
AttrList(t, l, mode, exc, i) ==
  IF mode = "selected"
  THEN IF OrEmpty(exc)[i] /= "" THEN FindAll(t, l, OrEmpty(exc)[i]) ELSE <<>>
  ELSE FindAllTags(t, l)

\* how many lists the attribute pass walks
AttrRounds(mode, exc) == IF mode = "selected" THEN Len(OrEmpty(exc)) ELSE 1

\* lines 50-52, 56-60, 64-66: the mode tests and the loop headers
AttrNext ==
  /\ pc = "attrs"
  /\ todo = <<>>
  /\ IF ti <= AttrRounds(clean_attrs_mode, attrs_exceptions)
     THEN /\ todo' = AttrList(soup, lb, clean_attrs_mode, attrs_exceptions, ti)
          /\ ti' = ti + 1
          /\ pc' = pc
     ELSE /\ pc' = "write"
          /\ UNCHANGED <<ti, todo>>
  /\ UNCHANGED <<gui, params, soup, result, output, snap>>

\* lines 54, 62, 67-69: element.attrs = {} for the next element of the list
AttrStep ==
  /\ pc = "attrs"
  /\ todo /= <<>>
  /\ soup' = IF Cleans(lb, clean_attrs_mode, attrs_exceptions, Head(todo))
             THEN ClearAttrs(soup, Head(todo)) ELSE soup
  /\ todo' = Tail(todo)
  /\ UNCHANGED <<gui, params, pc, ti, result, output, snap>>

\* lines 72-75: the output file is written and True is returned
Write ==
  /\ pc = "write"
  /\ output' = Some(Serialize(soup, lb))
  /\ result' = "True"
  /\ pc' = "done"
  /\ UNCHANGED <<gui, params, soup, ti, todo, snap>>

\* mutant of WriteFails: True is returned although the write raised
WriteFails_ReturnsTrue ==
  /\ pc = "write"
  /\ output' \in {output, Some(<<>>)}
  /\ result' = "True"
  /\ pc' = "done"
  /\ UNCHANGED <<gui, params, soup, ti, todo, snap>>

\* lines 72-73 raise: open() failed (file untouched) or write() failed after
\* open() had truncated the file; line 77 returns the message
WriteFails ==
  /\ pc = "write"
  /\ output' \in {output, Some(<<>>)}
  /\ result' = "error"
  /\ pc' = "done"
  /\ UNCHANGED <<gui, params, soup, ti, todo, snap>>

Next ==
  \/ ReadAndParse
  \/ ReadFails
  \/ CommentFind
  \/ CommentStep
  \/ UnwrapNextTag
  \/ UnwrapStep
  \/ DeleteNextTag
  \/ DeleteStep
  \/ AttrNext
  \/ AttrStep
  \/ Write
  \/ WriteFails

Spec == Init /\ [][Next]_vars

\* ------------------------------------------- files with a <comment> element
\* The same function on files in which an element may be named 'comment',
\* the name the lists use for the comment nodes.
OddNames == {"a", "comment"}

LabelingsOver(pv, names) ==
  {l \in [Ids -> names \cup {TextLabel, CommentLabel}] :
     \A i \in Ids : pv[i] /= Root => IsElemLabel(l[pv[i]])}

ContentsOver(names) ==
  UNION {UNION {{[pv |-> pv, lb |-> l, am |-> am] : am \in AttrMaps(l)} :
                  l \in LabelingsOver(pv, names)} : pv \in ParentVectors}

InitNames ==
  /\ content \in ContentsOver(OddNames)
  /\ tags_to_remove \in SeqsUpTo(OddNames, MaxTags)
  /\ tags_to_remove_with_content \in SeqsUpTo(OddNames, MaxTags)
  /\ Len(tags_to_remove) + Len(tags_to_remove_with_content) <= MaxTags
  /\ clean_attrs_mode \in Modes
  /\ attrs_exceptions \in SeqsUpTo(OddNames, MaxExceptions)
  /\ soup = NoSoup
  /\ pc = "start"
  /\ ti = 1
  /\ todo = <<>>
  /\ result = "none"
  /\ output = None
  /\ snap = [unwrap |-> NoSoup, delete |-> NoSoup, attrs |-> NoSoup]
  /\ NoBatch

SpecNames == InitNames /\ [][Next]_vars

\* ---------------------------------------------------------------- the disk
\* A path is the sequence of its components; a component is <<stem, ext>>,
\* so that os.path.splitext has something to split.
MaxPaths == 2

Dir(name) == <<name, "">>
File(stem, ext) == <<stem, ext>>

\* what is on the disk, in the order os.listdir and os.walk list it
Entries ==
  << <<Dir("p")>>,
     <<Dir("p"), File("x", ".html")>>,
     <<Dir("p"), Dir("d")>>,
     <<Dir("p"), Dir("d"), File("y", ".HTML")>>,
     <<Dir("p"), Dir("d"), File("n", ".css")>>,
     <<Dir("p"), Dir("d"), Dir("s")>>,
     <<Dir("p"), Dir("d"), Dir("s"), File("z", ".txt")>>,
     <<Dir("q")>>,
     <<Dir("q"), File("x", ".html")>> >>

\* what the path field can hold: files and folders of the disk, and a path
\* that has been removed since it was dropped
Selectable ==
  { <<Dir("p"), File("x", ".html")>>, <<Dir("q"), File("x", ".html")>>,
    <<Dir("p"), Dir("d")>>, <<Dir("p"), File("gone", ".html")>> }

\* os.path
join(a, b) == a \o b
dirname(path) == SubSeq(path, 1, Len(path) - 1)
basename(path) == <<path[Len(path)]>>
relpath(path, start) == SubSeq(path, Len(start) + 1, Len(path))
splitext(path) == <<File(path[Len(path)][1], "") , path[Len(path)][2]>>
isdir(path) == path \in Range(Entries) /\ path[Len(path)][2] = ""
isfile(path) == path \in Range(Entries) /\ path[Len(path)][2] /= ""

\* str.lower on the extensions of the disk
lower(ext) == IF ext = ".HTML" THEN ".html" ELSE ext

\* os.listdir(path), as full paths
listdir(path) == SelectSeq(Entries, LAMBDA e : Len(e) = Len(path) + 1 /\ dirname(e) = path)

\* os.walk(path), top down: the files of each directory, as full paths
RECURSIVE walk(_), walkEach(_)
walk(path) ==
  SelectSeq(listdir(path), isfile) \o walkEach(SelectSeq(listdir(path), isdir))

walkEach(dirs) ==
  IF dirs = <<>> THEN <<>> ELSE walk(Head(dirs)) \o walkEach(Tail(dirs))

\* file_utils.py line 19
is_supported_file(filename, extensions) ==
  lower(splitext(filename)[2]) \in extensions

\* file_utils.py lines 39-58: the (full_path, relative_path) pairs of one path
RECURSIVE PairEach(_, _, _)
PairEach(found, path, recursive) ==
  IF found = <<>> THEN <<>>
  ELSE LET full_path == Head(found)
           rel_path == IF recursive THEN relpath(full_path, path)
                       ELSE basename(full_path)
       IN << <<full_path, join(basename(path), rel_path)>> >>
          \o PairEach(Tail(found), path, recursive)

FilesOfPath(path, recursive, extensions) ==
  IF isfile(path)
  THEN IF is_supported_file(path, extensions)
       THEN << <<path, basename(path)>> >>
       ELSE <<>>
  ELSE IF isdir(path)
  THEN IF recursive
       THEN PairEach(SelectSeq(walk(path),
                               LAMBDA f : is_supported_file(f, extensions)),
                     path, TRUE)
       ELSE PairEach(SelectSeq(listdir(path),
                               LAMBDA f : isfile(f) /\ is_supported_file(f, extensions)),
                     path, FALSE)
  ELSE <<>>

\* file_utils.py lines 21-60
RECURSIVE get_all_files(_, _, _)
get_all_files(paths, recursive, supported_extensions) ==
  IF paths = <<>> THEN <<>>
  ELSE FilesOfPath(Head(paths), recursive, supported_extensions)
       \o get_all_files(Tail(paths), recursive, supported_extensions)

\* os.makedirs(path, exist_ok=True) raises when the directory or one above
\* it cannot be made: a regular file has the name, or writing is not allowed
makedirs_raises(path, blk) ==
  \E k \in 1..Len(path) : SubSeq(path, 1, k) \in blk

\* the files of the disk: two files, so that one output can be told from
\* another
DocChain ==
  [pv |-> [i \in Ids |-> i - 1],
   lb |-> [i \in Ids |-> IF i < MaxNodes THEN "a" ELSE TextLabel],
   am |-> [i \in Ids |-> IF i < MaxNodes THEN AttrsOf(i) ELSE NoAttrs]]

DocFlat ==
  [pv |-> [i \in Ids |-> Root],
   lb |-> [i \in Ids |-> IF i = 1 THEN "a"
                         ELSE IF i = MaxNodes THEN CommentLabel ELSE TextLabel],
   am |-> [i \in Ids |-> IF i = 1 THEN AttrsOf(i) ELSE NoAttrs]]

\* what open(input_path).read() gives
ReadFile(input_path) ==
  IF input_path[1] = Dir("q") \/ splitext(input_path)[2] = ".txt"
  THEN DocFlat ELSE DocChain

\* ------------------------------------------------------------- the window
\* main_window.py lines 551-555
SupportedExtensions(w) ==
  (IF w.html_checkbox THEN {".html"} ELSE {})
  \cup (IF w.txt_checkbox THEN {".txt"} ELSE {})

\* lines 586-594: the exceptions are read in the modes that use them
AttrExceptions(w) ==
  IF w.attr_clean_mode = "all" THEN <<>> ELSE w.selected_tags

\* lines 543-613: the message of the check that stops start_processing, ""
\* when none does
Rejection(w) ==
  IF w.paths = <<>> THEN "Please select at least one file or folder"
  ELSE IF SupportedExtensions(w) = {}
  THEN "Please select at least one file type to process"
  ELSE IF /\ w.tab = 0
          /\ w.tags_to_remove = <<>>
          /\ w.tags_to_remove_with_content = <<>>
  THEN "Please select at least one tag to remove"
  ELSE IF w.tab = 1 /\ w.attr_clean_mode /= "all" /\ AttrExceptions(w) = <<>>
  THEN IF w.attr_clean_mode = "selected"
       THEN "Please select at least one tag to clean attributes from"
       ELSE "Please select at least one tag to exclude from cleaning"
  ELSE ""

\* line 616
FilesOf(w) == get_all_files(w.paths, w.recursive, SupportedExtensions(w))

\* line 625
OutputDir(w) == join(dirname(w.paths[1]), <<Dir("processed")>>)

\* line 637, for the file the loop is at
input_path == files[processed + 1][1]
rel_path == files[processed + 1][2]
output_path == join(output_dir, rel_path)

\* QMessageBox.critical and QMessageBox.information
Box(kind, text, about, detail) ==
  [kind |-> kind, text |-> text, about |-> about, detail |-> detail]

\* QProgressBar(): the range 0..100 and no value
QProgressBar == [maximum |-> 100, value |-> -1]

\* QProgressBar.setMaximum: the bar is reset when its value is outside the
\* new range
setMaximum(bar, maximum) ==
  IF maximum = bar.maximum THEN bar
  ELSE [maximum |-> IF maximum < 0 THEN 0 ELSE maximum,
        value |-> IF bar.value < -1 \/ bar.value > maximum THEN -1 ELSE bar.value]

\* QProgressBar.setValue: a value outside the range has no effect, unless
\* the range is 0..0
setValue(bar, value) ==
  IF (value > bar.maximum \/ value < 0) /\ bar.maximum /= 0 THEN bar
  ELSE [bar EXCEPT !.value = value]

\* lines 561-594: the rule lists, made once from the widgets
RulesOf(w) ==
  [tags_to_remove |-> w.tags_to_remove,
   tags_to_remove_with_content |-> w.tags_to_remove_with_content,
   attr_clean_mode |-> w.attr_clean_mode,
   attr_exceptions |-> AttrExceptions(w)]

\* the rules the tabs can hold: what lines 561-594 make of the check boxes
Settings ==
  { [tab |-> 0, tags_to_remove |-> <<"a">>,
     tags_to_remove_with_content |-> <<"comment">>,
     attr_clean_mode |-> "all", selected_tags |-> <<>>],
    [tab |-> 0, tags_to_remove |-> <<>>, tags_to_remove_with_content |-> <<"a">>,
     attr_clean_mode |-> "all", selected_tags |-> <<>>],
    [tab |-> 0, tags_to_remove |-> <<>>, tags_to_remove_with_content |-> <<>>,
     attr_clean_mode |-> "all", selected_tags |-> <<>>],
    [tab |-> 1, tags_to_remove |-> <<>>, tags_to_remove_with_content |-> <<>>,
     attr_clean_mode |-> "selected", selected_tags |-> <<>>],
    [tab |-> 1, tags_to_remove |-> <<>>, tags_to_remove_with_content |-> <<>>,
     attr_clean_mode |-> "all_except", selected_tags |-> <<"a">>] }

\* a path field holds no path twice
PathLists ==
  {ps \in SeqsUpTo(Selectable, MaxPaths) :
     \A i, j \in 1..Len(ps) : ps[i] = ps[j] => i = j}

\* the directories a batch may have to make
OutputDirs ==
  UNION {{SubSeq(o, 1, k) : k \in 2..(Len(o) - 1)} :
           o \in {join(join(dirname(ps), <<Dir("processed")>>), SubSeq(e, 2, Len(e))) :
                    ps \in Selectable, e \in Range(Entries)}}

InitBatch ==
  /\ \E ps \in PathLists, r, h, t \in BOOLEAN, st \in Settings :
       window = [paths |-> ps, recursive |-> r, html_checkbox |-> h,
                 txt_checkbox |-> t, tab |-> st.tab,
                 tags_to_remove |-> st.tags_to_remove,
                 tags_to_remove_with_content |-> st.tags_to_remove_with_content,
                 attr_clean_mode |-> st.attr_clean_mode,
                 selected_tags |-> st.selected_tags]
  /\ blocked \in {{}} \cup {{d} : d \in OutputDirs}
  /\ fs = <<>>
  /\ bpc = "idle"
  /\ files = <<>>
  /\ output_dir = <<>>
  /\ processed = 0
  /\ errors = 0
  /\ progress_bar = QProgressBar
  /\ status_label = "Ready"
  /\ shown = <<>>
  /\ calls = <<>>
  /\ results = <<>>
  /\ rules = NoRules
  /\ stack = <<>>
  /\ clicks = 0
  /\ content = DocFlat
  /\ tags_to_remove = <<>>
  /\ tags_to_remove_with_content = <<>>
  /\ clean_attrs_mode = "all"
  /\ attrs_exceptions = <<>>
  /\ soup = NoSoup
  /\ pc = "idle"
  /\ ti = 1
  /\ todo = <<>>
  /\ result = "none"
  /\ output = None
  /\ snap = [unwrap |-> NoSoup, delete |-> NoSoup, attrs |-> NoSoup]

machine == <<params, soup, pc, ti, todo, result, output, snap>>

\* lines 543-613: a check fails, its message is shown, nothing is processed
StartRejected ==
  /\ bpc = "idle"
  /\ Rejection(window) /= ""
  /\ shown' = Append(shown, Box("error", Rejection(window), <<>>, ""))
  /\ bpc' = "returned"
  /\ UNCHANGED <<machine, window, stack, clicks, blocked, fs, files, output_dir, processed,
                 errors, progress_bar, status_label, calls, results, rules>>

\* lines 616-622: no file of a chosen type is found
StartNoFiles ==
  /\ bpc = "idle"
  /\ Rejection(window) = ""
  /\ FilesOf(window) = <<>>
  /\ shown' = Append(shown, Box("info", "No supported files found in selected paths",
                                <<>>, ""))
  /\ bpc' = "returned"
  /\ UNCHANGED <<machine, window, stack, clicks, blocked, fs, files, output_dir, processed,
                 errors, progress_bar, status_label, calls, results, rules>>

\* lines 616-626: os.makedirs(output_dir) raises; nothing catches it
StartRaises ==
  /\ bpc = "idle"
  /\ Rejection(window) = ""
  /\ FilesOf(window) /= <<>>
  /\ makedirs_raises(OutputDir(window), blocked)
  /\ files' = FilesOf(window)
  /\ output_dir' = OutputDir(window)
  /\ rules' = RulesOf(window)
  /\ bpc' = "crashed"
  /\ UNCHANGED <<machine, window, stack, clicks, blocked, fs, processed, errors, progress_bar,
                 status_label, shown, calls, results>>

\* lines 616-632: the files are listed, the output directory is made, the
\* counters and the progress bar are set
StartProcessing ==
  /\ bpc = "idle"
  /\ Rejection(window) = ""
  /\ FilesOf(window) /= <<>>
  /\ ~makedirs_raises(OutputDir(window), blocked)
  /\ files' = FilesOf(window)
  /\ output_dir' = OutputDir(window)
  /\ rules' = RulesOf(window)
  /\ fs' = [o \in DOMAIN fs \cup {join(OutputDir(window), f[2]) :
                                    f \in Range(FilesOf(window))}
              |-> IF o \in DOMAIN fs THEN fs[o] ELSE None]
  /\ processed' = 0
  /\ errors' = 0
  /\ progress_bar' = setValue(setMaximum(progress_bar, Len(FilesOf(window))), 0)
  /\ bpc' = "loop"
  /\ UNCHANGED <<machine, window, stack, clicks, blocked, status_label, shown, calls, results>>

\* lines 635-638: os.makedirs for the next file raises; nothing catches it
NextFileRaises ==
  /\ bpc = "loop"
  /\ processed < Len(files)
  /\ makedirs_raises(dirname(output_path), blocked)
  /\ bpc' = "crashed"
  /\ UNCHANGED <<machine, window, stack, clicks, blocked, fs, files, output_dir, processed,
                 errors, progress_bar, status_label, shown, calls, results, rules>>

\* mutant of NextFile: the widgets are read again for each file
NextFile_ReadsWindow ==
  /\ bpc = "loop"
  /\ processed < Len(files)
  /\ ~makedirs_raises(dirname(output_path), blocked)
  /\ content' = ReadFile(input_path)
  /\ tags_to_remove' = window.tags_to_remove
  /\ tags_to_remove_with_content' = window.tags_to_remove_with_content
  /\ clean_attrs_mode' = window.attr_clean_mode
  /\ attrs_exceptions' = AttrExceptions(window)
  /\ soup' = NoSoup
  /\ pc' = "start"
  /\ ti' = 1
  /\ todo' = <<>>
  /\ result' = "none"
  /\ output' = fs[output_path]
  /\ snap' = [unwrap |-> NoSoup, delete |-> NoSoup, attrs |-> NoSoup]
  /\ calls' = Append(calls, <<input_path, output_path>>)
  /\ bpc' = "call"
  /\ UNCHANGED <<window, stack, clicks, blocked, fs, files, output_dir, processed,
                 errors, progress_bar, status_label, shown, results, rules>>

\* lines 635-642: the next file's directory is made and process_html_file is
\* called with the rule lists
NextFile ==
  /\ bpc = "loop"
  /\ processed < Len(files)
  /\ ~makedirs_raises(dirname(output_path), blocked)
  /\ content' = ReadFile(input_path)
  /\ tags_to_remove' = rules.tags_to_remove
  /\ tags_to_remove_with_content' = rules.tags_to_remove_with_content
  /\ clean_attrs_mode' = rules.attr_clean_mode
  /\ attrs_exceptions' = rules.attr_exceptions
  /\ soup' = NoSoup
  /\ pc' = "start"
  /\ ti' = 1
  /\ todo' = <<>>
  /\ result' = "none"
  /\ output' = fs[output_path]
  /\ snap' = [unwrap |-> NoSoup, delete |-> NoSoup, attrs |-> NoSoup]
  /\ calls' = Append(calls, <<input_path, output_path>>)
  /\ bpc' = "call"
  /\ UNCHANGED <<window, stack, clicks, blocked, fs, files, output_dir, processed, errors,
                 progress_bar, status_label, shown, results, rules>>

\* history: what the call that has returned did to the output file
Effect ==
  IF result = "True" THEN "written"
  ELSE IF output = fs[output_path] THEN "untouched" ELSE "truncated"

\* lines 644-651: process_html_file has returned; an error is shown with the
\* file's relative path, the file is counted
CountFile ==
  /\ bpc = "call"
  /\ pc = "done"
  /\ fs' = [fs EXCEPT ![output_path] = output]
  /\ results' = Append(results, [result |-> result, effect |-> Effect])
  /\ IF IsError(result)
     THEN /\ shown' = Append(shown, Box("error", "Error processing", rel_path, result))
          /\ errors' = errors + 1
     ELSE UNCHANGED <<shown, errors>>
  /\ processed' = processed + 1
  /\ progress_bar' = setValue(progress_bar, processed + 1)
  /\ status_label' = "Processing"
  /\ bpc' = "loop"
  /\ UNCHANGED <<machine, window, stack, clicks, blocked, files, output_dir, calls, rules>>

\* lines 654-658: the loop is over, the counts are shown
Finish ==
  /\ bpc = "loop"
  /\ processed = Len(files)
  /\ shown' = Append(shown, Box("info", "Processed", processed - errors,
                                IF errors > 0 THEN errors ELSE ""))
  /\ status_label' = "Ready"
  /\ progress_bar' = setValue(progress_bar, 0)
  /\ bpc' = "finished"
  /\ UNCHANGED <<machine, window, stack, clicks, blocked, fs, files, output_dir, processed,
                 errors, calls, results, rules>>

NextBatch ==
  \/ Next
  \/ StartRejected
  \/ StartNoFiles
  \/ StartRaises
  \/ StartProcessing
  \/ NextFileRaises
  \/ NextFile
  \/ CountFile
  \/ Finish

SpecBatch == InitBatch /\ [][NextBatch]_vars

\* the batch whose steps are taken as long as one is possible: the loop of
\* lines 635-651 runs on its own, and a message box is closed by the user
SpecBatchFair == SpecBatch /\ WF_vars(NextBatch)

\* ------------------------------------- the events between two files
\* QApplication.processEvents() at line 651 handles what the user did to the
\* window while a file was processed.  The Start button stays enabled (lines
\* 194-196), so one of the events can be a click on it: start_processing is
\* then called from inside processEvents, and the call that was running
\* waits for it to return.
MaxClicks == 1

\* the locals of the running start_processing
Frame ==
  [files |-> files, output_dir |-> output_dir, processed |-> processed,
   errors |-> errors, rules |-> rules]

\* line 651 is reached when a file has been counted
InProcessEvents == bpc = "loop" /\ processed >= 1

\* what the path field holds at the start, and what is dropped on it
EventPaths ==
  { <<<<Dir("p"), File("x", ".html")>>, <<Dir("p"), Dir("d")>>>> }
Drops ==
  { <<<<Dir("q"), File("x", ".html")>>>>,
    <<<<Dir("p"), File("gone", ".html")>>>> }

InitEvents ==
  /\ InitBatch
  /\ window.paths \in EventPaths
  /\ window.recursive
  /\ window.html_checkbox
  /\ ~window.txt_checkbox

\* drag_drop.py lines 24-39 and main_window.py lines 405-412: a drop or a
\* browse binds a new list to path_input.paths
DropEvent ==
  /\ InProcessEvents
  /\ \E ps \in Drops : window' = [window EXCEPT !.paths = ps]
  /\ UNCHANGED <<machine, batch>>

\* check boxes and radio buttons are toggled, the custom list is edited, the
\* other tab is chosen
TabEvent ==
  /\ InProcessEvents
  /\ \E st \in Settings :
       window' = [window EXCEPT !.tab = st.tab,
                                !.tags_to_remove = st.tags_to_remove,
                                !.tags_to_remove_with_content =
                                  st.tags_to_remove_with_content,
                                !.attr_clean_mode = st.attr_clean_mode,
                                !.selected_tags = st.selected_tags]
  /\ UNCHANGED <<machine, batch>>

\* lines 194-196: a click on Start calls start_processing; the call that is
\* in processEvents waits with its locals
ClickStart ==
  /\ InProcessEvents
  /\ clicks < MaxClicks
  /\ clicks' = clicks + 1
  /\ stack' = Append(stack, Frame)
  /\ bpc' = "idle"
  /\ UNCHANGED <<machine, window, blocked, fs, files, output_dir, processed,
                 errors, progress_bar, status_label, shown, calls, results, rules>>

\* the call made from processEvents returns (lines 546, 559, 601, 613, 622,
\* 658): the waiting call goes on with its own locals
Return ==
  /\ bpc \in {"finished", "returned"}
  /\ stack /= <<>>
  /\ files' = stack[Len(stack)].files
  /\ output_dir' = stack[Len(stack)].output_dir
  /\ processed' = stack[Len(stack)].processed
  /\ errors' = stack[Len(stack)].errors
  /\ rules' = stack[Len(stack)].rules
  /\ stack' = SubSeq(stack, 1, Len(stack) - 1)
  /\ bpc' = "loop"
  /\ UNCHANGED <<machine, window, clicks, blocked, fs, progress_bar, status_label,
                 shown, calls, results>>

NextEvents ==
  \/ NextBatch
  \/ DropEvent
  \/ TabEvent
  \/ ClickStart
  \/ Return

SpecEvents == InitEvents /\ [][NextEvents]_vars

\* ------------------------------------------------ the "Tags to Remove" tab
\* The check boxes of the common tags and the list of custom tags.  A text is
\* the sequence of its words, with or without blanks around it.
MaxCustom == 2
MaxWords == 2

\* the common tags whose check boxes are used, in the order of line 250
TabTags == <<"script", "comment">>

\* what can be typed into the custom tag field
Words == {"script", "x"}
Texts == [pad : BOOLEAN, words : SeqsUpTo(Words, MaxWords)]

\* str.strip() and str.split() of a text
strip(text) == [pad |-> FALSE, words |-> text.words]
split(text) == text.words

\* main_window.py lines 264-273: nothing is ticked, the 'with content' boxes
\* are disabled, the list is empty
InitTabs ==
  /\ window = [removal_tag_checkboxes |-> [t \in Range(TabTags) |-> FALSE],
               removal_mode_checkboxes |->
                 [t \in Range(TabTags) |-> [enabled |-> FALSE, checked |-> FALSE]],
               removal_tags_list |-> <<>>]
  /\ NoBatch!2 /\ NoBatch!3 /\ NoBatch!4 /\ NoBatch!5 /\ NoBatch!6 /\ NoBatch!7
  /\ NoBatch!8 /\ NoBatch!9 /\ NoBatch!10 /\ NoBatch!11 /\ NoBatch!12 /\ NoBatch!13
  /\ NoBatch!14 /\ NoBatch!15 /\ NoBatch!16
  /\ content = DocFlat
  /\ tags_to_remove = <<>>
  /\ tags_to_remove_with_content = <<>>
  /\ clean_attrs_mode = "all"
  /\ attrs_exceptions = <<>>
  /\ soup = NoSoup
  /\ pc = "idle"
  /\ ti = 1
  /\ todo = <<>>
  /\ result = "none"
  /\ output = None
  /\ snap = [unwrap |-> NoSoup, delete |-> NoSoup, attrs |-> NoSoup]

\* mutant of toggle_removal_mode: line 538 is left out
toggle_removal_mode_KeepsChecked(w, tag, state) ==
  [w EXCEPT !.removal_mode_checkboxes[tag].enabled = (state = "Checked")]

\* lines 534-538
toggle_removal_mode(w, tag, state) ==
  LET en == [w EXCEPT !.removal_mode_checkboxes[tag].enabled = (state = "Checked")]
  IN IF state /= "Checked"
     THEN [en EXCEPT !.removal_mode_checkboxes[tag].checked = FALSE]
     ELSE en

\* a click on the 'remove' box of a tag: the box changes state, and
\* stateChanged calls toggle_removal_mode (line 276)
ClickRemove ==
  \E tag \in Range(TabTags) :
    LET now == ~window.removal_tag_checkboxes[tag]
    IN window' = toggle_removal_mode(
                   [window EXCEPT !.removal_tag_checkboxes[tag] = now],
                   tag, IF now THEN "Checked" ELSE "Unchecked")
  /\ UNCHANGED <<machine, batch>>

\* a click on the 'with content' box of a tag: a disabled box takes no click
ClickMode ==
  \E tag \in Range(TabTags) :
    /\ window.removal_mode_checkboxes[tag].enabled
    /\ window' = [window EXCEPT !.removal_mode_checkboxes[tag].checked = ~@]
  /\ UNCHANGED <<machine, batch>>

\* line 437: the first word of the text of every item
existing_items(w) ==
  {<<Head(split(w.removal_tags_list[i].text))>> : i \in 1..Len(w.removal_tags_list)}

\* lines 422-446: the text of the field, stripped, is added to the list with
\* its mode unless the first word of an item is equal to it
add_removal_tag(w, text, with_content) ==
  LET tag_input == strip(text).words
  IN IF tag_input = <<>> THEN w
     ELSE IF tag_input \notin existing_items(w)
     THEN [w EXCEPT !.removal_tags_list =
             Append(@, [text |-> [pad |-> FALSE,
                                  words |-> tag_input \o (IF with_content
                                                          THEN <<"(with content)">>
                                                          ELSE <<>>)],
                        data |-> <<tag_input, IF with_content THEN "1" ELSE "0">>])]
     ELSE w

\* a text is typed, 'Remove with content' is ticked or not, Add is clicked;
\* the message boxes of lines 426 and 446 change nothing
AddRemovalTag ==
  \E text \in Texts, with_content \in BOOLEAN :
    /\ Len(window.removal_tags_list) < MaxCustom
    /\ window' = add_removal_tag(window, text, with_content)
  /\ UNCHANGED <<machine, batch>>

\* lines 448-452: the selected item is taken out of the list
RemoveRemovalTag ==
  \E i \in 1..Len(window.removal_tags_list) :
    window' = [window EXCEPT !.removal_tags_list = RemoveAt(@, i)]
  /\ UNCHANGED <<machine, batch>>

\* a tag name of the check boxes as the text it is
TagText(tag) == <<tag>>

\* start_processing, lines 561-583: the two lists built from the check boxes
\* and the custom tags
RECURSIVE CommonInto(_, _, _)
CommonInto(w, tags, lists) ==
  IF tags = <<>> THEN lists
  ELSE LET tag == Head(tags)
       IN CommonInto(w, Tail(tags),
            IF w.removal_tag_checkboxes[tag]
            THEN IF w.removal_mode_checkboxes[tag].checked
                 THEN [lists EXCEPT !.tags_to_remove_with_content = Append(@, TagText(tag))]
                 ELSE [lists EXCEPT !.tags_to_remove = Append(@, TagText(tag))]
            ELSE lists)

RECURSIVE CustomInto(_, _)
CustomInto(items, lists) ==
  IF items = <<>> THEN lists
  ELSE LET item_data == Head(items).data
           tag == item_data[1]
           with_content == item_data[2] = "1"
       IN CustomInto(Tail(items),
            IF with_content
            THEN [lists EXCEPT !.tags_to_remove_with_content = Append(@, tag)]
            ELSE [lists EXCEPT !.tags_to_remove = Append(@, tag)])

RemovalLists(w) ==
  CustomInto(w.removal_tags_list,
             CommonInto(w, TabTags,
                        [tags_to_remove |-> <<>>, tags_to_remove_with_content |-> <<>>]))

NextTabs ==
  \/ ClickRemove
  \/ ClickMode
  \/ AddRemovalTag
  \/ RemoveRemovalTag

SpecTabs == InitTabs /\ [][NextTabs]_vars

\* ------------------------------------------------ the passes as functions
\* The same loops, run to their end: each applies the step of the action of
\* the same name to every element of the list find_all returned.
RECURSIVE ExtractEach(_, _)
ExtractEach(t, s) ==
  IF s = <<>> THEN t ELSE ExtractEach(Extract(t, Head(s)), Tail(s))

RECURSIVE UnwrapEach(_, _)
UnwrapEach(t, s) ==
  IF s = <<>> \/ t.raised THEN t ELSE UnwrapEach(Unwrap(t, Head(s)), Tail(s))

RECURSIVE DecomposeEach(_, _)
DecomposeEach(t, s) ==
  IF s = <<>> THEN t ELSE DecomposeEach(Decompose(t, Head(s)), Tail(s))

RECURSIVE CleanEach(_, _, _, _, _)
CleanEach(t, l, mode, exc, s) ==
  IF s = <<>> THEN t
  ELSE CleanEach(IF Cleans(l, mode, exc, Head(s)) THEN ClearAttrs(t, Head(s)) ELSE t,
                 l, mode, exc, Tail(s))

\* lines 31-33
CommentPass(t, l, rem, del) ==
  IF WantsComments(rem, del) THEN ExtractEach(t, FindAllComments(t, l)) ELSE t

\* lines 36-40
RECURSIVE UnwrapPass(_, _, _)
UnwrapPass(t, l, tags) ==
  IF tags = <<>> \/ t.raised THEN t
  ELSE UnwrapPass(IF IsTagName(Head(tags))
                  THEN UnwrapEach(t, FindAll(t, l, Head(tags))) ELSE t,
                  l, Tail(tags))

\* lines 43-47
RECURSIVE DeletePass(_, _, _)
DeletePass(t, l, tags) ==
  IF tags = <<>> \/ t.raised THEN t
  ELSE DeletePass(IF IsTagName(Head(tags))
                  THEN DecomposeEach(t, FindAll(t, l, Head(tags))) ELSE t,
                  l, Tail(tags))

\* lines 50-69
RECURSIVE AttrRound(_, _, _, _, _)
AttrRound(t, l, mode, exc, i) ==
  IF i > AttrRounds(mode, exc) \/ t.raised THEN t
  ELSE AttrRound(CleanEach(t, l, mode, exc, AttrList(t, l, mode, exc, i)),
                 l, mode, exc, i + 1)

AttrPass(t, l, mode, exc) == AttrRound(t, l, mode, exc, 1)

\* lines 30-69: the tree that is serialized when nothing was raised
Transform(t, l, rem, del, mode, exc) ==
  AttrPass(DeletePass(UnwrapPass(CommentPass(t, l, rem, del), l, rem), l, del),
           l, mode, exc)

\* ------------------------------------- html_modifier.process_html_file
\* The variant with one tag list and a flag.  html_modifier.py lines 40-42
ModifierComments(t, l, tags) ==
  IF "comment" \in Range(tags) THEN ExtractEach(t, FindAllComments(t, l)) ELSE t

\* mutant of ModifierEach: the flag is not looked at
RECURSIVE ModifierEach_AlwaysUnwrap(_, _, _)
ModifierEach_AlwaysUnwrap(t, s, remove_with_content) ==
  IF s = <<>> \/ t.raised THEN t
  ELSE ModifierEach_AlwaysUnwrap(Unwrap(t, Head(s)), Tail(s), remove_with_content)

\* html_modifier.py lines 47-53: each element found is decomposed or
\* unwrapped, as the flag says
RECURSIVE ModifierEach(_, _, _)
ModifierEach(t, s, remove_with_content) ==
  IF s = <<>> \/ t.raised THEN t
  ELSE ModifierEach(IF remove_with_content THEN Decompose(t, Head(s))
                    ELSE Unwrap(t, Head(s)),
                    Tail(s), remove_with_content)

\* html_modifier.py lines 45-53
RECURSIVE ModifierTags(_, _, _, _)
ModifierTags(t, l, tags, remove_with_content) ==
  IF tags = <<>> \/ t.raised THEN t
  ELSE ModifierTags(IF Head(tags) /= "" /\ Head(tags) /= "comment"
                    THEN ModifierEach(t, FindAll(t, l, Head(tags)), remove_with_content)
                    ELSE t,
                    l, Tail(tags), remove_with_content)

\* html_modifier.py lines 40-75; lines 56-75 are lines 50-69 of
\* html_processor.py word for word
ModifierTransform(t, l, tags, remove_with_content, mode, exc) ==
  AttrPass(ModifierTags(ModifierComments(t, l, tags), l, tags, remove_with_content),
           l, mode, exc)

\* --------------------------------------------- the image_optimizer variant
\* One tag list, unwrap only, no attribute pass.  image_optimizer.py line 311
optimizer_common_tags ==
  <<"script", "style", "iframe", "comment", "header", "footer", "nav", "aside">>

\* list.remove(x): the first x of the list is taken out
remove(list, x) ==
  RemoveAt(list, CHOOSE i \in DOMAIN list :
                   list[i] = x /\ \A j \in 1..(i - 1) : list[j] /= x)

\* image_optimizer.py lines 453-462: the checked common tags in the order of
\* the check boxes, then the custom tags
SelectedTags(w) ==
  SelectSeq(optimizer_common_tags, LAMBDA tag : tag \in w.tag_checkboxes)
  \o w.custom_tags_list

\* image_optimizer.py lines 469-470
TagsPassed(w) ==
  IF "comment" \in Range(SelectedTags(w))
  THEN remove(SelectedTags(w), "comment") ELSE SelectedTags(w)

\* image_optimizer.py lines 30-32
OptimizerComments(t, l, tags) ==
  IF "comment" \in Range(tags) THEN ExtractEach(t, FindAllComments(t, l)) ELSE t

\* image_optimizer.py lines 35-39
RECURSIVE OptimizerUnwrap(_, _, _)
OptimizerUnwrap(t, l, tags) ==
  IF tags = <<>> \/ t.raised THEN t
  ELSE OptimizerUnwrap(IF Head(tags) /= "" /\ Head(tags) /= "comment"
                       THEN UnwrapEach(t, FindAll(t, l, Head(tags))) ELSE t,
                       l, Tail(tags))

\* image_optimizer.py lines 30-39
OptimizerTransform(t, l, tags) ==
  OptimizerUnwrap(OptimizerComments(t, l, tags), l, tags)

\* add_custom_tag (lines 386-398) lets no tag into the list twice
CustomLists ==
  {c \in SeqsUpTo(ElemNames \cup {"comment"}, MaxTags) :
     \A i, j \in 1..Len(c) : c[i] = c[j] => i = j}

\* the window of image_optimizer with one file chosen
InitOptimizer ==
  /\ \E ch \in SUBSET {"script", "comment"}, cu \in CustomLists :
       window = [tag_checkboxes |-> ch, custom_tags_list |-> cu]
  /\ content \in Contents
  /\ blocked = {}
  /\ fs = <<>>
  /\ bpc = "idle"
  /\ files = <<>>
  /\ output_dir = <<>>
  /\ processed = 0
  /\ errors = 0
  /\ progress_bar = [maximum |-> 0, value |-> 0]
  /\ status_label = "Ready"
  /\ shown = <<>>
  /\ calls = <<>>
  /\ results = <<>>
  /\ rules = NoRules
  /\ stack = <<>>
  /\ clicks = 0
  /\ tags_to_remove = <<>>
  /\ tags_to_remove_with_content = <<>>
  /\ clean_attrs_mode = "all"
  /\ attrs_exceptions = <<>>
  /\ soup = NoSoup
  /\ pc = "idle"
  /\ ti = 1
  /\ todo = <<>>
  /\ result = "none"
  /\ output = None
  /\ snap = [unwrap |-> NoSoup, delete |-> NoSoup, attrs |-> NoSoup]

\* what no action of the variant touches
rest == <<content, tags_to_remove_with_content, clean_attrs_mode, attrs_exceptions,
          pc, ti, todo, snap, window, blocked, fs, files, output_dir, calls, results,
          rules, stack, clicks>>

\* image_optimizer.py lines 453-466: no tag is selected
OptimizerRejected ==
  /\ bpc = "idle"
  /\ SelectedTags(window) = <<>>
  /\ shown' = Append(shown, Box("error", "Please select at least one tag to remove",
                                <<>>, ""))
  /\ bpc' = "returned"
  /\ UNCHANGED <<rest, tags_to_remove, soup, result, output, processed, errors,
                 progress_bar, status_label>>

\* image_optimizer.py lines 453-489: the tag list is built, 'comment' is
\* taken out of it, the counters and the progress bar are set
OptimizerStart ==
  /\ bpc = "idle"
  /\ SelectedTags(window) /= <<>>
  /\ tags_to_remove' = TagsPassed(window)
  /\ processed' = 0
  /\ errors' = 0
  /\ progress_bar' = [maximum |-> 1, value |-> 0]
  /\ bpc' = "loop"
  /\ UNCHANGED <<rest, soup, result, output, status_label, shown>>

\* image_optimizer.py lines 491-496 and 18-45: the file is read, parsed,
\* changed and written
OptimizerCall ==
  /\ bpc = "loop"
  /\ processed = 0
  /\ soup' = OptimizerTransform(ParseContent(content), lb, tags_to_remove)
  /\ output' = Some(Serialize(soup', lb))
  /\ result' = "True"
  /\ bpc' = "call"
  /\ UNCHANGED <<rest, tags_to_remove, processed, errors, progress_bar,
                 status_label, shown>>

\* image_optimizer.py lines 20-24 or 42-43 raise: line 47 returns the message
OptimizerCallFails ==
  /\ bpc = "loop"
  /\ processed = 0
  /\ output' \in {output, Some(<<>>)}
  /\ result' = "error"
  /\ bpc' = "call"
  /\ UNCHANGED <<rest, tags_to_remove, soup, processed, errors, progress_bar,
                 status_label, shown>>

\* image_optimizer.py lines 498-505
OptimizerCount ==
  /\ bpc = "call"
  /\ IF IsError(result)
     THEN /\ shown' = Append(shown, Box("error", "Error processing", <<>>, result))
          /\ errors' = errors + 1
     ELSE UNCHANGED <<shown, errors>>
  /\ processed' = processed + 1
  /\ progress_bar' = [progress_bar EXCEPT !.value = processed + 1]
  /\ status_label' = "Processing"
  /\ bpc' = "loop"
  /\ UNCHANGED <<rest, tags_to_remove, soup, result, output>>

\* image_optimizer.py lines 507-511
OptimizerFinish ==
  /\ bpc = "loop"
  /\ processed = 1
  /\ shown' = Append(shown, Box("info", "Processed", processed - errors,
                                IF errors > 0 THEN errors ELSE ""))
  /\ status_label' = "Ready"
  /\ progress_bar' = [progress_bar EXCEPT !.value = 0]
  /\ bpc' = "finished"
  /\ UNCHANGED <<rest, tags_to_remove, soup, result, output, processed, errors>>

NextOptimizer ==
  \/ OptimizerRejected
  \/ OptimizerStart
  \/ OptimizerCall
  \/ OptimizerCallFails
  \/ OptimizerCount
  \/ OptimizerFinish

SpecOptimizer == InitOptimizer /\ [][NextOptimizer]_vars

\* the run agrees with the passes taken as functions
RunIsTransform ==
  pc = "write" =>
    soup = Transform(ParseContent(content), lb, tags_to_remove,
                     tags_to_remove_with_content, clean_attrs_mode, attrs_exceptions)

\* ------------------------------------------------------ words for claims
InTree(t) == Range(Descendants(t, Root))
Parsed == ParseContent(content)

\* the tag names the unwrap pass and the delete pass act on
UnwrapNames == {x \in Range(tags_to_remove) : IsTagName(x)}
DeleteNames == {x \in Range(tags_to_remove_with_content) : IsTagName(x)}

Named(n, names) == IsElement(lb, n) /\ lb[n] \in names

\* the shape of a tree: who is whose child, in which order
SameShape(t, u) == t.contents = u.contents /\ t.parent = u.parent

IsSuffix(s, all) == \E k \in 0..Len(all) : s = SubSeq(all, k + 1, Len(all))

PassNo(p) ==
  CASE p = "start" -> 0
    [] p \in {"comments", "comment_loop"} -> 1
    [] p = "unwrap" -> 2
    [] p = "delete" -> 3
    [] p = "attrs" -> 4
    [] p = "write" -> 5
    [] p = "done" -> 6

\* the first three passes, each run to its end on the result of the one before
AfterThree ==
  DeletePass(UnwrapPass(CommentPass(Parsed, lb, tags_to_remove,
                                    tags_to_remove_with_content),
                        lb, tags_to_remove),
             lb, tags_to_remove_with_content)

\* C1: the passes run in the order comments, unwrap, delete, attributes: a
\* step never goes back to an earlier pass nor skips one; each pass starts on
\* the tree the pass before it left when it was finished; and every list the
\* attribute pass walks is find_all's answer on the tree the first three
\* passes left, walked one element at a time from its head.
C1_Step ==
  /\ PassNo(pc') >= PassNo(pc)
  /\ pc' /= "done" => PassNo(pc') <= PassNo(pc) + 1
  /\ pc' = "unwrap" /\ pc /= "unwrap" =>
       soup' = CommentPass(Parsed, lb, tags_to_remove, tags_to_remove_with_content)
  /\ pc' = "delete" /\ pc /= "delete" =>
       soup' = UnwrapPass(snap'.unwrap, lb, tags_to_remove)
  /\ pc' = "attrs" =>
       /\ SameShape(soup', AfterThree)
       /\ pc /= "attrs" => soup' = AfterThree
       /\ \A n \in Range(todo') : n \in InTree(AfterThree) /\ IsElement(lb, n)
       /\ todo = <<>> /\ pc = "attrs" =>
            todo' = AttrList(AfterThree, lb, clean_attrs_mode, attrs_exceptions, ti)
       /\ todo /= <<>> /\ pc = "attrs" => todo' = Tail(todo)

C1_PassOrder == [][C1_Step]_vars

\* C1 witness: a comment was removed, an element was unwrapped, and the
\* attribute pass is walking a list of surviving elements
C1_Witness ==
  /\ pc = "attrs"
  /\ todo /= <<>>
  /\ snap.unwrap /= Parsed
  /\ snap.delete /= snap.unwrap

\* the children list s with every element named in names replaced, again and
\* again, by its own children
RECURSIVE Spliced(_, _, _)
Spliced(t, names, s) ==
  IF s = <<>> THEN <<>>
  ELSE (IF Named(Head(s), names) THEN Spliced(t, names, t.contents[Head(s)])
        ELSE <<Head(s)>>)
       \o Spliced(t, names, Tail(s))

TextsOf(t) == SelectSeq(Descendants(t, Root), LAMBDA n : IsText(lb, n))

\* C2: when the unwrap pass has finished, no element named in tags_to_remove
\* (empty names and 'comment' aside) is left at any depth; the children of
\* each removed element stand where it stood, in their order; the Text nodes
\* of the document are the same, in the same order.
C2_Unwrap ==
  pc = "delete" =>
    /\ \A n \in InTree(snap.delete) : ~Named(n, UnwrapNames)
    /\ \A n \in {Root} \cup InTree(snap.delete) :
         snap.delete.contents[n] = Spliced(snap.unwrap, UnwrapNames, snap.unwrap.contents[n])
    /\ \A n \in InTree(snap.delete) : \A p \in Nodes :
         snap.delete.parent[n] = Some(p) <=> n \in Range(snap.delete.contents[p])
    /\ TextsOf(snap.delete) = TextsOf(snap.unwrap)

\* C2 witness: an unwrapped element sat inside another unwrapped element and
\* had a Text node below it
C2_Witness ==
  /\ pc = "delete"
  /\ \E n, m \in InTree(snap.unwrap) :
       /\ Named(n, UnwrapNames) /\ Named(m, UnwrapNames)
       /\ snap.unwrap.parent[m] = Some(n)
       /\ \E x \in Range(snap.unwrap.contents[m]) : IsText(lb, x)

\* the nodes of t that are, or lie below, an element named in names
RECURSIVE Under(_, _, _)
Under(t, names, n) ==
  \/ Named(n, names)
  \/ (t.parent[n] /= None /\ Under(t, names, t.parent[n][1]))

\* C3: when the delete pass has finished, no element named in
\* tags_to_remove_with_content (empty names and 'comment' aside) is left, nor
\* any node that was below one; every other node has the parent it had and
\* the same order among its siblings.
C3_Delete ==
  pc = "attrs" =>
    /\ \A n \in InTree(snap.attrs) : ~Named(n, DeleteNames)
    /\ InTree(snap.attrs) = {n \in InTree(snap.delete) : ~Under(snap.delete, DeleteNames, n)}
    /\ \A n \in InTree(snap.attrs) : snap.attrs.parent[n] = snap.delete.parent[n]
    /\ \A n \in {Root} \cup InTree(snap.attrs) :
         snap.attrs.contents[n] =
           SelectSeq(snap.delete.contents[n], LAMBDA c : ~Named(c, DeleteNames))

\* C3 witness: a deleted element sat inside another deleted element, and a
\* node that is not deleted had a deleted sibling before it
C3_Witness ==
  /\ pc = "attrs"
  /\ \E n, m \in InTree(snap.delete) :
       /\ Named(n, DeleteNames) /\ Named(m, DeleteNames)
       /\ snap.delete.parent[m] = Some(n)
  /\ \E k \in InTree(snap.attrs) : \E d \in InTree(snap.delete) :
       /\ Named(d, DeleteNames)
       /\ snap.delete.parent[d] = snap.delete.parent[k]
       /\ d < k

\* the list s without the entries equal to x
Without(s, x) == SelectSeq(s, LAMBDA y : y /= x)

\* the tag names listed in both tags_to_remove and tags_to_remove_with_content
BothNames == UnwrapNames \cap DeleteNames

\* C4: for a tag name listed in both lists, the tree that is written is the
\* tree the same file gives when the name is listed in tags_to_remove only,
\* and so is the text written.
C4_BothIsUnwrap ==
  pc = "write" =>
    \A x \in BothNames :
      LET only == Transform(Parsed, lb, tags_to_remove,
                            Without(tags_to_remove_with_content, x),
                            clean_attrs_mode, attrs_exceptions)
      IN soup = only /\ Serialize(soup, lb) = Serialize(only, lb)

\* C4 witness: an element of a name listed in both lists had a child, and the
\* child is in the tree that is written
C4_Witness ==
  /\ pc = "write"
  /\ \E n \in InTree(Parsed) :
       /\ Named(n, BothNames)
       /\ \E c \in Range(Parsed.contents[n]) : c \in InTree(soup)

\* C5 as stated: for a tag name listed in both lists, every element of that
\* name is gone from the written tree together with everything below it.
C5_DeleteWins ==
  pc = "write" =>
    \A n \in InTree(Parsed) : Under(Parsed, BothNames, n) => n \notin InTree(soup)

\* C5 amended: for a tag name listed in both lists, unwrapping takes
\* precedence: every element of that name is gone from the written tree, and
\* every node below it is still in the tree unless a rule of its own removes
\* it (it is a comment and comments are removed, it is itself named in one of
\* the lists, or it lies below an element named only in
\* tags_to_remove_with_content).
C5_UnwrapWins ==
  pc = "write" =>
    \A n \in InTree(Parsed) :
      /\ Named(n, BothNames) => n \notin InTree(soup)
      /\ ( /\ Under(Parsed, BothNames, n)
           /\ ~Named(n, UnwrapNames \cup DeleteNames)
           /\ ~Under(Parsed, DeleteNames \ UnwrapNames, n)
           /\ ~(IsComment(lb, n)
                /\ WantsComments(tags_to_remove, tags_to_remove_with_content)) )
         => n \in InTree(soup)

\* C5 witness: an element of a name listed in both lists had a Text node
\* below it, and the Text node is in the tree that is written
C5_Witness ==
  /\ pc = "write"
  /\ \E n \in InTree(Parsed) :
       /\ IsText(lb, n)
       /\ Under(Parsed, BothNames, n)
       /\ n \in InTree(soup)

\* C6: when 'comment' is listed, the comment pass leaves every Element and
\* Text node with the parent, the attributes and the children it had, the
\* comments among the children aside; the tree that is written holds no
\* Comment at any depth; and with no other tag listed, an element that held
\* nothing but a comment is written as an empty element.
C6_Comments ==
  WantsComments(tags_to_remove, tags_to_remove_with_content) =>
    /\ pc = "unwrap" =>
         /\ \A n \in Nodes : ~IsComment(lb, n) =>
              /\ snap.unwrap.parent[n] = Parsed.parent[n]
              /\ snap.unwrap.attrs[n] = Parsed.attrs[n]
              /\ snap.unwrap.contents[n] =
                   SelectSeq(Parsed.contents[n], LAMBDA c : ~IsComment(lb, c))
         /\ InTree(snap.unwrap) = {n \in InTree(Parsed) : ~IsComment(lb, n)}
    /\ pc = "write" =>
         /\ \A n \in InTree(soup) : ~IsComment(lb, n)
         /\ UnwrapNames = {} /\ DeleteNames = {} =>
              \A n \in InTree(Parsed) : IsElement(lb, n) =>
                /\ n \in InTree(soup)
                /\ (\A c \in Range(Parsed.contents[n]) : IsComment(lb, c))
                     => soup.contents[n] = <<>>

\* C6 witness: no tag but 'comment' is listed, and an element that held only
\* a comment, itself inside another element, is written empty
C6_Witness ==
  /\ pc = "write"
  /\ WantsComments(tags_to_remove, tags_to_remove_with_content)
  /\ UnwrapNames = {} /\ DeleteNames = {}
  /\ \E n \in InTree(soup) :
       /\ IsElement(lb, n)
       /\ Parsed.parent[n] /= Some(Root)
       /\ Parsed.contents[n] /= <<>>
       /\ soup.contents[n] = <<>>

Listed(n) == lb[n] \in Range(OrEmpty(attrs_exceptions))

\* C7: under 'all_except', every element of the written tree that is not
\* named in attrs_exceptions has no attributes, and every one that is named
\* there has the attributes it had before the attribute pass.
C7_AllExcept ==
  pc = "write" /\ clean_attrs_mode = "all_except" =>
    \A n \in InTree(soup) : IsElement(lb, n) =>
      soup.attrs[n] = IF Listed(n) THEN snap.attrs.attrs[n] ELSE NoAttrs

\* C7 witness: one element kept its attributes and another lost its own
C7_Witness ==
  /\ pc = "write" /\ clean_attrs_mode = "all_except"
  /\ \E n, m \in InTree(soup) :
       /\ IsElement(lb, n) /\ Listed(n) /\ soup.attrs[n] /= NoAttrs
       /\ IsElement(lb, m) /\ ~Listed(m)
       /\ snap.attrs.attrs[m] /= NoAttrs /\ soup.attrs[m] = NoAttrs

\* C8: under 'selected', every element of the written tree that is named in
\* attrs_exceptions has no attributes, and every other element has the
\* attributes it had before the attribute pass.
C8_Selected ==
  pc = "write" /\ clean_attrs_mode = "selected" =>
    \A n \in InTree(soup) : IsElement(lb, n) =>
      soup.attrs[n] = IF Listed(n) THEN NoAttrs ELSE snap.attrs.attrs[n]

\* C8 witness: a listed element lost its attributes, an element that is not
\* listed kept its own
C8_Witness ==
  /\ pc = "write" /\ clean_attrs_mode = "selected"
  /\ \E n, m \in InTree(soup) :
       /\ IsElement(lb, n) /\ Listed(n)
       /\ snap.attrs.attrs[n] /= NoAttrs /\ soup.attrs[n] = NoAttrs
       /\ IsElement(lb, m) /\ ~Listed(m) /\ soup.attrs[m] /= NoAttrs

\* C9: under 'all', every element of the written tree has no attributes, and
\* the written tree is the one the same file and lists give with an empty
\* attrs_exceptions.
C9_All ==
  pc = "write" /\ clean_attrs_mode = "all" =>
    /\ \A n \in InTree(soup) : IsElement(lb, n) => soup.attrs[n] = NoAttrs
    /\ soup = Transform(Parsed, lb, tags_to_remove, tags_to_remove_with_content,
                        "all", <<>>)

\* C9 witness: an element named in attrs_exceptions lost its attributes
C9_Witness ==
  /\ pc = "write" /\ clean_attrs_mode = "all"
  /\ \E n \in InTree(soup) :
       /\ IsElement(lb, n) /\ Listed(n)
       /\ snap.attrs.attrs[n] /= NoAttrs /\ soup.attrs[n] = NoAttrs

\* C10: the attribute pass leaves the tree as it found it, attributes aside:
\* the same nodes with the same parents and the same children in the same
\* order, the same file content behind them; and each element's attributes
\* are what they were or none at all.
C10_AttrFrame ==
  pc \in {"attrs", "write"} =>
    /\ SameShape(soup, snap.attrs)
    /\ InTree(soup) = InTree(snap.attrs)
    /\ Serialize([soup EXCEPT !.attrs = snap.attrs.attrs], lb) = Serialize(snap.attrs, lb)
    /\ \A n \in Nodes : soup.attrs[n] \in {snap.attrs.attrs[n], NoAttrs}

\* C10 witness: the pass cleared one element and left another, in a tree
\* that also holds a node that is no element
C10_Witness ==
  /\ pc = "write"
  /\ \E n, m, x \in InTree(soup) :
       /\ IsElement(lb, n) /\ soup.attrs[n] = NoAttrs /\ snap.attrs.attrs[n] /= NoAttrs
       /\ IsElement(lb, m) /\ soup.attrs[m] /= NoAttrs
       /\ ~IsElement(lb, x)

\* the tree process_html_file serializes for the file and the lists of the run
Transformed ==
  Transform(Parsed, lb, tags_to_remove, tags_to_remove_with_content,
            clean_attrs_mode, attrs_exceptions)

\* C12: process_html_file always returns a value; until it returns, the
\* output file is untouched; when it returns True the output file holds the
\* whole serialized tree; every other return is the error message, which the
\* caller's test takes for an error, and then the output file is absent or
\* was emptied by open() and never holds part of the text.
C12_Result ==
  /\ pc /= "done" => result = "none" /\ output = None
  /\ pc = "done" => result \in {"True", "error"}
  /\ result = "True" => pc = "done" /\ output = Some(Serialize(Transformed, lb))
  /\ pc = "done" /\ IsError(result) =>
       result = "error" /\ output \in {None, Some(<<>>)}

\* C12 witness: True was returned and the file holds a text that is not empty
C12_Witness ==
  /\ pc = "done"
  /\ result = "True"
  /\ output /= Some(<<>>)
  /\ Transformed /= Parsed

\* C13: no step of the four passes raises: an error is returned only from
\* the read at the start or from the write at the end, and a run that has
\* begun its passes reaches the write.
C13_Step ==
  /\ ~soup'.raised
  /\ result' = "error" /\ result /= "error" => pc \in {"start", "write"}
  /\ pc \in {"comments", "comment_loop", "unwrap", "delete", "attrs"} => pc' /= "done"

C13_PassesNeverFail == [][C13_Step]_vars

\* C13 witness: the delete pass has run over an element nested in another
\* element of its list, and the run has reached the write
C13_Witness ==
  /\ pc = "write"
  /\ result = "none"
  /\ \E n, m \in InTree(snap.delete) :
       /\ Named(n, DeleteNames) /\ Named(m, DeleteNames)
       /\ snap.delete.parent[m] = Some(n)
       /\ snap.delete.contents[m] /= <<>>

\* C16: the transform applied to its own result, with the same lists, gives
\* the same tree and the same text.
C16_Idempotent ==
  pc = "write" =>
    LET again == Transform(soup, lb, tags_to_remove, tags_to_remove_with_content,
                           clean_attrs_mode, attrs_exceptions)
    IN again = soup /\ Serialize(again, lb) = Serialize(soup, lb)

\* C16 witness: the first application removed a comment, unwrapped an element
\* and cleared attributes
C16_Witness ==
  /\ pc = "write"
  /\ snap.unwrap /= Parsed
  /\ snap.delete /= snap.unwrap
  /\ soup.attrs /= snap.attrs.attrs

\* the lists that hold the same names as s, each as often, in any order
SameBag(s, u) ==
  /\ Len(s) = Len(u)
  /\ \A x \in Range(s) \cup Range(u) :
       Cardinality({i \in DOMAIN s : s[i] = x}) = Cardinality({i \in DOMAIN u : u[i] = x})

Reorderings(s) == {u \in [1..Len(s) -> Range(s)] : SameBag(s, u)}

\* C17: the tree that is written is the one the passes give as functions of
\* the file and the lists, and it is the same for every order in which the
\* names of tags_to_remove and of tags_to_remove_with_content are listed.
C17_OrderFree ==
  pc = "write" =>
    \A rem \in Reorderings(tags_to_remove) :
      \A del \in Reorderings(tags_to_remove_with_content) :
        LET other == Transform(Parsed, lb, rem, del, clean_attrs_mode, attrs_exceptions)
        IN soup = other /\ Serialize(soup, lb) = Serialize(other, lb)

\* C17 witness: two different names are listed in tags_to_remove, and an
\* element of one sat inside an element of the other
C17_Witness ==
  /\ pc = "write"
  /\ Len(tags_to_remove) >= 2
  /\ \E n, m \in InTree(Parsed) :
       /\ Named(n, UnwrapNames) /\ Named(m, UnwrapNames)
       /\ lb[n] /= lb[m]
       /\ Parsed.parent[m] = Some(n)

\* C18: empty names in the three lists change nothing: the tree that is
\* written is the one the lists without their empty names give, and no error
\* has been returned on the way.
C18_EmptyIgnored ==
  pc = "write" =>
    /\ result = "none"
    /\ soup = Transform(Parsed, lb, Without(tags_to_remove, ""),
                        Without(tags_to_remove_with_content, ""),
                        clean_attrs_mode, Without(OrEmpty(attrs_exceptions), ""))

\* C18 witness: an empty name stands before a name whose element was
\* unwrapped, and attrs_exceptions holds an empty name too
C18_Witness ==
  /\ pc = "write"
  /\ Len(tags_to_remove) >= 2
  /\ tags_to_remove[1] = ""
  /\ \E n \in InTree(Parsed) : Named(n, UnwrapNames) /\ n \notin InTree(soup)
  /\ "" \in Range(OrEmpty(attrs_exceptions))

\* the names listed in either list, the empty name aside
ListedNames ==
  (Range(tags_to_remove) \cup Range(tags_to_remove_with_content)) \ {""}

\* C19 as stated: every element whose name is a non-empty string of
\* tags_to_remove or tags_to_remove_with_content is gone from the written
\* tree.
C19_AnyName ==
  pc = "write" =>
    \A n \in InTree(Parsed) : Named(n, ListedNames) => n \notin InTree(soup)

\* C19 amended: the same for every non-empty name other than 'comment': an
\* element of a listed name is gone from the written tree; what lay below an
\* element listed in tags_to_remove_with_content only is gone with it; a Text
\* node that lay below no such element is still in the tree, whatever was
\* unwrapped around it.
C19_AnyNameButComment ==
  pc = "write" =>
    \A n \in InTree(Parsed) :
      /\ Named(n, ListedNames \ {"comment"}) => n \notin InTree(soup)
      /\ Under(Parsed, DeleteNames \ UnwrapNames, n) => n \notin InTree(soup)
      /\ IsText(lb, n) /\ ~Under(Parsed, DeleteNames \ UnwrapNames, n)
           => n \in InTree(soup)

\* C19 witness: an element of a name outside the catalog was unwrapped and
\* the Text node below it kept, while a listed <comment> element stayed
C19_Witness ==
  /\ pc = "write"
  /\ \E n, x \in InTree(Parsed) :
       /\ Named(n, UnwrapNames) /\ lb[n] \notin common_tags
       /\ n \notin InTree(soup)
       /\ IsText(lb, x) /\ Parsed.parent[x] = Some(n) /\ x \in InTree(soup)
  /\ \E c \in InTree(soup) : lb[c] = "comment" /\ "comment" \in ListedNames

\* ------------------------------------------------------ words of the batch
\* the output path of the k-th listed file
Out(k) == join(output_dir, files[k][2])

\* start_processing has ended, by returning or by an exception
Ended == bpc \in {"finished", "crashed"}

\* the call for the k-th file returned an error
Failed(k) == k <= Len(results) /\ IsError(results[k].result)

\* an error box names the k-th file's relative path and the message returned
Reported(k) ==
  \E i \in 1..Len(shown) :
    /\ shown[i].kind = "error"
    /\ shown[i].about = files[k][2]
    /\ k <= Len(results) => shown[i].detail = results[k].result

\* what process_html_file writes for the k-th file under the window's rules
Ideal(k) ==
  LET c == ReadFile(files[k][1])
  IN Serialize(Transform(ParseContent(c), c.lb, window.tags_to_remove,
                         window.tags_to_remove_with_content,
                         window.attr_clean_mode, AttrExceptions(window)), c.lb)

\* the output files after the calls i..Len(results) other than the k-th have
\* had their effect on the files f
RECURSIVE ReplayWithout(_, _, _)
ReplayWithout(k, i, f) ==
  IF i > Len(results) THEN f
  ELSE ReplayWithout(k, i + 1,
         IF i = k \/ results[i].effect = "untouched" THEN f
         ELSE [f EXCEPT ![Out(i)] = IF results[i].effect = "written"
                                    THEN Some(Ideal(i)) ELSE Some(<<>>)])

\* the output files of the batch, had the k-th file not been in it
Without_k(k) == ReplayWithout(k, 1, [o \in DOMAIN fs |-> None])

\* C11 as stated: when the batch has ended and the call for a file k returned
\* an error, an error box names k's relative path and the message, every
\* other file has been processed, and the output of every other file that
\* was written is what it would be had k not been in the batch.
C11_Isolation ==
  Ended =>
    \A k \in 1..Len(files) :
      Failed(k) =>
        /\ Reported(k)
        /\ \A j \in 1..Len(files) \ {k} :
             /\ j <= Len(results)
             /\ results[j].result = "True" => fs[Out(j)] = Without_k(k)[Out(j)]

\* C11, the state the fault leads to: the call for one file failed after open() had
\* emptied the output file, and that file was the output another file of the
\* batch had been written to
C11_Witness ==
  /\ bpc = "finished"
  /\ \E k, j \in 1..Len(files) :
       /\ j < k /\ Failed(k) /\ results[k].effect = "truncated"
       /\ results[j].result = "True" /\ Out(j) = Out(k)
       /\ fs[Out(j)] = Some(<<>>) /\ Ideal(j) /= <<>>

\* C14 as stated: when the batch has ended, every file whose destination
\* directory could not be made has an error box with its relative path, and
\* process_html_file has been called for every other file.
C14_OnlyThatFile ==
  Ended =>
    \A k \in 1..Len(files) :
      IF makedirs_raises(dirname(Out(k)), blocked)
      THEN Reported(k)
      ELSE \E i \in 1..Len(calls) : calls[i] = <<files[k][1], Out(k)>>

\* C14, the state the fault leads to: os.makedirs raised for a file after the first,
\* nothing was shown for it, and a file whose directory could be made was
\* never processed
C14_Witness ==
  /\ bpc = "crashed"
  /\ Len(calls) >= 1
  /\ shown = <<>>
  /\ \E k \in 1..Len(files) :
       /\ ~makedirs_raises(dirname(Out(k)), blocked)
       /\ \A i \in 1..Len(calls) : calls[i][1] /= files[k][1]

\* the batch has listed its files
Listing == bpc \in {"loop", "call", "finished", "crashed"}

\* C15 as stated: every listed file's output path is its relative path under
\* <parent of the first input path>/processed, with the extension of the
\* input, and two different input files have two different output paths.
C15_OwnOutput ==
  Listing =>
    \A i, j \in 1..Len(files) :
      /\ Out(i) = join(join(dirname(window.paths[1]), <<Dir("processed")>>), files[i][2])
      /\ splitext(Out(i))[2] = splitext(files[i][1])[2]
      /\ files[i][1] /= files[j][1] => Out(i) /= Out(j)

\* C15, the state the fault leads to: two different input files have been written
\* to one output path, and the file holds the output of the second only
C15_Witness ==
  /\ bpc = "finished"
  /\ \E i, j \in 1..Len(files) :
       /\ i < j /\ files[i][1] /= files[j][1] /\ Out(i) = Out(j)
       /\ results[i].result = "True" /\ results[j].result = "True"
       /\ fs[Out(i)] = Some(Ideal(j)) /\ Ideal(i) /= Ideal(j)

\* C20 as stated: the calls of process_html_file are for the listed files in
\* their order, one call has returned before the next is made, no pass of
\* process_html_file runs outside a call, and when the batch has ended every
\* listed file has had its one call.
C20_InOrderToTheEnd ==
  /\ Len(calls) <= Len(files)
  /\ \A k \in 1..Len(calls) : calls[k] = <<files[k][1], Out(k)>>
  /\ Len(results) = processed
  /\ Len(calls) = IF bpc = "call" THEN processed + 1 ELSE processed
  /\ pc \notin {"idle", "done"} => bpc = "call"
  /\ Ended => Len(calls) = Len(files)

\* C20, the state the fault leads to: the loop was left after the first file, with
\* a file still to do
C20_Witness ==
  /\ bpc = "crashed"
  /\ Len(calls) = 1 /\ Len(results) = 1
  /\ Len(files) > 1

\* ------------------------------------------------- the name 'comment'
\* the names of a list that are matched against elements
RealNames(list) == Range(list) \ {"", "comment"}

\* C22: the comment pass empties the tree of Comment nodes when 'comment' is
\* in tags_to_remove or in tags_to_remove_with_content, and leaves the tree
\* as parsed when it is in neither; an element is missing from the written
\* tree only if its own name, 'comment' aside, is in one of the lists or it
\* lay below an element whose name, 'comment' aside, is in
\* tags_to_remove_with_content: an element named 'comment' is never matched.
C22_CommentRule ==
  /\ pc \in {"unwrap", "delete", "attrs", "write"} =>
       IF WantsComments(tags_to_remove, tags_to_remove_with_content)
       THEN \A n \in InTree(snap.unwrap) : ~IsComment(lb, n)
       ELSE snap.unwrap = Parsed
  /\ pc = "write" =>
       \A n \in InTree(Parsed) :
         IsElement(lb, n) /\ n \notin InTree(soup) =>
           \/ lb[n] \in RealNames(tags_to_remove)
           \/ Under(Parsed, RealNames(tags_to_remove_with_content), n)

\* C22 witness: 'comment' is listed, a Comment node is gone, and an element
\* named 'comment' is still in the written tree
C22_Witness ==
  /\ pc = "write"
  /\ WantsComments(tags_to_remove, tags_to_remove_with_content)
  /\ \E n \in InTree(Parsed) : IsComment(lb, n) /\ n \notin InTree(soup)
  /\ \E c \in InTree(Parsed) : lb[c] = "comment" /\ c \in InTree(soup)

\* C27: inside a call of process_html_file the output file changes only in
\* the step that writes it, after the read, the parse and the four passes;
\* a call that ends at the read returns an error and leaves the output file
\* as it was, absent or with the content it had, and changes nothing else
\* of the disk or the window.
C27_Step ==
  bpc = "call" /\ pc /= "done" =>
    /\ output' /= output => pc = "write"
    /\ fs' = fs
    /\ pc = "start" /\ pc' = "done" =>
         /\ IsError(result')
         /\ output' = output
         /\ soup' = NoSoup
         /\ UNCHANGED gui

C27_ReadFailureWritesNothing == [][C27_Step]_vars

\* C27 witness: the read failed in a call whose output file already
\* existed with content, and the file still has that content
C27_Witness ==
  /\ bpc = "call" /\ pc = "done"
  /\ IsError(result)
  /\ soup = NoSoup
  /\ output = fs[output_path]
  /\ output \notin {None, Some(<<>>)}

\* C28: a run of html_processor.process_html_file with an empty
\* tags_to_remove_with_content writes the tree and the text that
\* html_modifier.process_html_file gives for the same file with the list
\* tags_to_remove and remove_with_content=False; a run with an empty
\* tags_to_remove writes what the variant gives with the list
\* tags_to_remove_with_content and remove_with_content=True.
C28_VariantAgrees ==
  pc = "write" =>
    /\ tags_to_remove_with_content = <<>> =>
         LET m == ModifierTransform(Parsed, lb, tags_to_remove, FALSE,
                                    clean_attrs_mode, attrs_exceptions)
         IN m = soup /\ m.raised = soup.raised /\ Serialize(m, lb) = Serialize(soup, lb)
    /\ tags_to_remove = <<>> =>
         LET m == ModifierTransform(Parsed, lb, tags_to_remove_with_content, TRUE,
                                    clean_attrs_mode, attrs_exceptions)
         IN m = soup /\ m.raised = soup.raised /\ Serialize(m, lb) = Serialize(soup, lb)

\* C28 witness: only tags_to_remove_with_content is used, with two names, and
\* an element with something below it was deleted
C28_Witness ==
  /\ pc = "write"
  /\ tags_to_remove = <<>>
  /\ Cardinality(DeleteNames) = 2
  /\ \E n \in InTree(Parsed) :
       /\ Named(n, DeleteNames) /\ Parsed.contents[n] /= <<>>
       /\ n \notin InTree(soup)

\* C23 as stated: in the image_optimizer variant, when 'comment' is among the
\* selected tags, the list passed to process_html_file does not hold it, and
\* the tree written for the file holds no Comment node.
C23_CommentsHandled ==
  bpc /= "idle" /\ result = "True" /\ "comment" \in Range(SelectedTags(window)) =>
    /\ "comment" \notin Range(tags_to_remove)
    /\ \A n \in InTree(soup) : ~IsComment(lb, n)

\* C23, the state the fault leads to: 'comment' was ticked, the file was
\* written, and every Comment node of the file is in what was written
C23_Witness ==
  /\ bpc = "finished" /\ result = "True"
  /\ "comment" \in window.tag_checkboxes
  /\ \E n \in InTree(Parsed) : IsComment(lb, n)
  /\ \A n \in InTree(Parsed) : IsComment(lb, n) => n \in InTree(soup)

\* ------------------------------------------------- words of the tab
\* how often a name stands in a list
Count(list, x) == Cardinality({i \in 1..Len(list) : list[i] = x})

\* C24 as stated: whatever was clicked, added and removed, no tag name is in
\* both lists start_processing builds.
C24_NoNameInBoth ==
  Range(RemovalLists(window).tags_to_remove)
    \cap Range(RemovalLists(window).tags_to_remove_with_content) = {}

\* C24, the state the fault leads to: the box of a common tag is ticked
\* without 'with content', and the same name is in the custom list with
\* content
C24_Witness ==
  \E tag \in Range(TabTags) :
    /\ window.removal_tag_checkboxes[tag]
    /\ ~window.removal_mode_checkboxes[tag].checked
    /\ \E i \in 1..Len(window.removal_tags_list) :
         window.removal_tags_list[i].data = <<TagText(tag), "1">>
    /\ TagText(tag) \in Range(RemovalLists(window).tags_to_remove)
    /\ TagText(tag) \in Range(RemovalLists(window).tags_to_remove_with_content)

\* the lists the check boxes alone give (lines 565-571)
CommonLists(w) ==
  CommonInto(w, TabTags, [tags_to_remove |-> <<>>, tags_to_remove_with_content |-> <<>>])

\* C30: for each common tag the 'with content' box is enabled exactly when
\* the 'remove' box is ticked, and ticked only if the 'remove' box is; the
\* loop over the check boxes puts a ticked tag once into the list its
\* 'with content' box says and not into the other, and an unticked tag into
\* neither.
C30_ModeFollowsRemove ==
  \A tag \in Range(TabTags) :
    LET remove_box == window.removal_tag_checkboxes[tag]
        mode_box == window.removal_mode_checkboxes[tag]
        unwrap_n == Count(CommonLists(window).tags_to_remove, TagText(tag))
        delete_n == Count(CommonLists(window).tags_to_remove_with_content, TagText(tag))
    IN /\ mode_box.enabled = remove_box
       /\ mode_box.checked => remove_box
       /\ remove_box /\ mode_box.checked => unwrap_n = 0 /\ delete_n = 1
       /\ remove_box /\ ~mode_box.checked => unwrap_n = 1 /\ delete_n = 0
       /\ ~remove_box => unwrap_n = 0 /\ delete_n = 0

\* C30 witness: one tag is ticked with content, the other tag is not ticked,
\* and a custom tag is in the list
C30_Witness ==
  /\ \E tag \in Range(TabTags) :
       /\ window.removal_tag_checkboxes[tag]
       /\ window.removal_mode_checkboxes[tag].checked
       /\ CommonLists(window).tags_to_remove_with_content = <<TagText(tag)>>
  /\ \E tag \in Range(TabTags) :
       /\ ~window.removal_tag_checkboxes[tag]
       /\ ~window.removal_mode_checkboxes[tag].enabled
  /\ window.removal_tags_list /= <<>>

\* ------------------------------------------------- the running batch
\* the last entry of a history
Last(seq) == seq[Len(seq)]

\* C21 as stated: while a batch runs 0 <= errors <= processed <= total_files;
\* when a file has been counted the progress bar shows processed; the loop
\* is left with processed = total_files, and the completion message gives a
\* success count that with the error count makes the number of listed files,
\* naming the error count only when it is more than zero.
C21_Step ==
  /\ bpc' \in {"loop", "call", "finished"} =>
       0 <= errors' /\ errors' <= processed' /\ processed' <= Len(files')
  /\ bpc = "call" /\ bpc' = "loop" =>
       /\ processed' = processed + 1
       /\ progress_bar'.value = processed'
  /\ bpc = "loop" /\ bpc' = "finished" =>
       /\ processed = Len(files)
       /\ shown' = Append(shown, Box("info", "Processed", Len(files) - errors,
                                     IF errors > 0 THEN errors ELSE ""))
C21_Counters == [][C21_Step]_vars

\* C21, the state the fault leads to: no call of start_processing waits, the
\* running one has counted its second file, and the bar shows less, its
\* maximum being that of a batch of one file
C21_Witness ==
  /\ stack = <<>>
  /\ bpc = "loop"
  /\ processed = 2
  /\ progress_bar.maximum = 1
  /\ progress_bar.value < processed

\* C25 as stated: no call of start_processing waits in processEvents for
\* another one, and while the loop runs the progress bar shows the number of
\* files it has counted.
C25_OneBatch ==
  /\ stack = <<>>
  /\ bpc \in {"loop", "call"} => progress_bar.value = processed

\* C25, the state the fault leads to: a second loop is at its first file while
\* the first loop, one file counted and one to go, waits in processEvents
C25_Witness ==
  /\ Len(stack) = 1
  /\ stack[1].processed = 1
  /\ Len(stack[1].files) = 2
  /\ bpc = "call"
  /\ processed = 0
  /\ pc = "write"

\* the rule lists a step passes to process_html_file
Passed ==
  [tags_to_remove |-> tags_to_remove',
   tags_to_remove_with_content |-> tags_to_remove_with_content',
   attr_clean_mode |-> clean_attrs_mode',
   attr_exceptions |-> attrs_exceptions']

\* C26: from the first file on, the rule lists, the file list and the output
\* directory of a running batch stay as they were made; a step that changes
\* the widgets changes none of them and not the position in the list; each
\* call of process_html_file passes the batch's rule lists and takes the next
\* file of the batch's list; a batch that waited goes on with its own lists
\* at its own position.
C26_Step ==
  /\ bpc \in {"loop", "call"} /\ bpc' \in {"loop", "call", "finished", "crashed"} =>
       UNCHANGED <<rules, files, output_dir>>
  /\ window' /= window =>
       UNCHANGED <<rules, files, output_dir, processed, errors, stack, fs, calls>>
  /\ bpc = "loop" /\ bpc' = "call" =>
       /\ Passed = rules
       /\ content' = ReadFile(files[processed + 1][1])
       /\ calls' = Append(calls, <<files[processed + 1][1], Out(processed + 1)>>)
  /\ Len(stack') > Len(stack) => stack' = Append(stack, Frame)
  /\ Len(stack') < Len(stack) =>
       /\ [files |-> files', output_dir |-> output_dir', processed |-> processed',
           errors |-> errors', rules |-> rules'] = stack[Len(stack)]
       /\ bpc' = "loop"
C26_RulesAndFilesFixed == [][C26_Step]_vars

\* C26 witness: the second file of a batch is being processed after the
\* path field and the tabs were changed: the widgets now give other rule
\* lists and another file list than the batch's
C26_Witness ==
  /\ bpc = "call"
  /\ processed = 1
  /\ stack = <<>>
  /\ clicks = 0
  /\ RulesOf(window) /= rules
  /\ FilesOf(window) /= files
  /\ tags_to_remove = rules.tags_to_remove
  /\ tags_to_remove_with_content = rules.tags_to_remove_with_content
  /\ Last(calls) = <<files[2][1], Out(2)>>

\* the completion of lines 654-658
Completed ==
  /\ bpc = "finished"
  /\ shown /= <<>>
  /\ Last(shown).kind = "info"
  /\ Last(shown).text = "Processed"
  /\ status_label = "Ready"
  /\ progress_bar.value = 0

\* C29 as stated: a batch that has listed at least one file comes to its
\* completion: the message is shown, the status label is 'Ready' and the
\* progress bar is at 0.
C29_Finishes == (files /= <<>>) ~> Completed

\* C29, the state the fault leads to: a file was processed, the next one's
\* directory could not be made, and the batch is over without its completion
C29_Witness ==
  /\ bpc = "crashed"
  /\ files /= <<>>
  /\ processed >= 1
  /\ processed < Len(files)
  /\ status_label = "Processing"
  /\ progress_bar.value = processed

====
